---- MODULE Spec2Model ----
(***************************************************************************)
(* Storage-engine core of bustub: the extendible hash table, the LRU-K     *)
(* replacer, the buffer pool manager instance that composes them, and the  *)
(* B+ tree index with its leaf and internal pages.                         *)
(*                                                                         *)
(*   SpecHT : the hash table alone (ExtendibleHashTable<int, int>)         *)
(*   Spec   : the buffer pool, with its page table (the hash table) and    *)
(*            its replacer                                                 *)
(*   SpecLong : longer runs of the buffer pool without page writes         *)
(*   SpecConc : the buffer pool of SpecLong called by several threads      *)
(*   SpecLatch: the lock and unlock steps of concurrent calls              *)
(*   SpecLRUAnyK: the replacer alone with k_ >= 1                          *)
(*   SpecHTSteps : the hash table alone, running an insert scenario with   *)
(*            every Insert one loop iteration at a time                    *)
(*   SpecLRU : the replacer alone (LRUKReplacer)                           *)
(*   SpecLRUScript : the replacer alone, running a fixed access scenario   *)
(*   SpecBTScript : the B+ tree alone, running a fixed call scenario        *)
(*   SpecBTWide   : the B+ tree alone with internal_max_size up to 5        *)
(*   SpecBT : the B+ tree alone (BPlusTree), over a pool that keeps every  *)
(*            page the tree has not deleted                                *)
(***************************************************************************)
EXTENDS Integers, Sequences, FiniteSets, TLC

\* ------------------------------------------------------------------ bounds
MaxKey == 5           \* standalone hash table: keys are 0..MaxKey
MaxVal == 2           \* standalone hash table: values are 1..MaxVal
MaxDepth == 4         \* standalone table, scenarios: the directory is doubled to at most 2^MaxDepth slots
MaxBucketSize == 2    \* bucket_size constructor argument ranges over 1..MaxBucketSize
PoolSize == 2         \* pool_size constructor argument of the buffer pool
NumThreads == 2       \* threads that call the buffer pool concurrently
MaxPageId == 5        \* fetch_page is called with page ids 0..MaxPageId
MaxTime == 4          \* Spec: cap on the replacer's logical clock current_timestamp_
MaxLongTime == 9      \* SpecLong: cap on the replacer's logical clock
MaxPin == 2           \* cap on a frame's pin count
MaxData == 1          \* page bytes are abstracted to one value in 0..MaxData
ReplacerK == 2        \* replacer_k constructor argument of the buffer pool
MaxReplacerSize == 2  \* standalone replacer: num_frames ranges over 1..MaxReplacerSize
MaxReplacerK == 3     \* standalone replacer: k ranges over 2..MaxReplacerK
MaxAccesses == 5      \* standalone replacer: cap on the logical clock
MaxTreeKey == 5       \* B+ tree: keys are 1..MaxTreeKey
MaxTreeVal == 1       \* B+ tree: values are 1..MaxTreeVal
MaxTreePages == 7     \* B+ tree: the pool hands out page ids 1..MaxTreePages
MaxLeafSize == 4      \* B+ tree: leaf_max_size ranges over 3..MaxLeafSize
MaxInternalSize == 3  \* B+ tree: internal_max_size ranges over 3..MaxInternalSize
MaxWideInternalSize == 5  \* B+ tree with wide internal pages: internal_max_size ranges over 3..MaxWideInternalSize

INVALID_PAGE_ID == -1
None == -2            \* "no value": a failed Find, a nullptr result

Keys == 0 .. MaxKey
Vals == 1 .. MaxVal
PageIds == 0 .. MaxPageId
Frames == 0 .. (PoolSize - 1)
Threads == 1 .. NumThreads
Datas == 0 .. MaxData
FrameIds == 0 .. (MaxReplacerSize + 2)
TreeKeys == 1 .. MaxTreeKey
TreeVals == 1 .. MaxTreeVal
TreePageIds == 1 .. MaxTreePages

VARIABLES
  ht,            \* standalone table: [global_depth, num_buckets, dir, bk, diverged]
  bucket_size,   \* standalone table: bucket_size_
  shadow,        \* standalone table: key -> value of the latest Insert, None after Remove
  ht_script,     \* standalone table: [calls, pc, idx], the keys a scenario inserts, the next
                 \* one to insert, and idx of the Insert in progress (None between calls)
  pages,         \* pool: pages_[f] = [page_id, pin_count, is_dirty, data]
  free_list,     \* pool: free_list_
  page_table,    \* pool: page_table_ (an extendible hash table page id -> frame id)
  pt_bucket_size,\* pool: bucket_size_ handed to the page table
  replacer,      \* pool: replacer_ = [history_list, cache_list, frames, curr_size, current_timestamp]
  next_page_id,  \* pool: next_page_id_
  disk,          \* disk manager: page id -> bytes on disk
  aborted,       \* pool: a BUSTUB_ASSERT has failed and ended the process
  returned,      \* pool: page ids that new_page has returned so far
  committed,     \* pool: page id -> bytes a holder unpinned as dirty (None: nothing to expect)
  latch,         \* pool: latch_ is held
  thread,        \* pool: thread -> "idle", or "locked" once its call holds latch_
  pinned,        \* pool: page id -> successful new_page / fetch_page calls minus successful unpin_page calls
  obtained,      \* pool: page id -> the frame its callers hold (None: every caller has unpinned it)
  held,          \* latches: thread -> the latches it holds, in the order it took them
  prog,          \* latches: thread -> the lock and unlock steps its call has still to run
  lru,           \* standalone replacer: [history_list, cache_list, frames, curr_size, current_timestamp]
  lru_size,      \* standalone replacer: replacer_size_
  lru_k,         \* standalone replacer: k_
  lru_aborted,   \* standalone replacer: a BUSTUB_ASSERT has failed and ended the process
  lru_log,       \* standalone replacer: the accepted accesses of the tracked frames, oldest first
  lru_evicted,   \* standalone replacer: the frames evict has returned so far
  script,        \* standalone replacer: the accesses a scenario has still to make
  tree,          \* B+ tree: [pages, root_page_id, next_page_id, header, deleted, status]
  leaf_max_size, \* B+ tree: leaf_max_size_
  internal_max_size, \* B+ tree: internal_max_size_
  bt_shadow,     \* B+ tree: key -> the values Insert returned true for since the key's last Remove
  bt_script      \* B+ tree: [calls, pc], the calls of a scenario and the next one to make

htvars == <<ht, bucket_size, shadow, ht_script>>
latchvars == <<held, prog>>
ccvars == <<latch, thread, pinned, obtained, held, prog>>
bpmvars == <<pages, free_list, page_table, pt_bucket_size, replacer, next_page_id,
             disk, aborted, returned, committed, latch, thread, pinned, obtained, held, prog>>
lruvars == <<lru, lru_size, lru_k, lru_aborted, lru_log, lru_evicted, script>>
btvars == <<tree, leaf_max_size, internal_max_size, bt_shadow, bt_script>>
vars == <<ht, bucket_size, shadow, ht_script, pages, free_list, page_table, pt_bucket_size,
          replacer, next_page_id, disk, aborted, returned, committed,
          latch, thread, pinned, obtained, held, prog,
          lru, lru_size, lru_k, lru_aborted, lru_log, lru_evicted, script,
          tree, leaf_max_size, internal_max_size, bt_shadow, bt_script>>

\* ------------------------------------------------------------ small helpers
RECURSIVE Pow2(_)
Pow2(n) == IF n <= 0 THEN 1 ELSE 2 * Pow2(n - 1)

RECURSIVE BitsFor(_)
\* number of low bits that tell apart all keys 0..m
BitsFor(m) == IF m <= 0 THEN 0 ELSE 1 + BitsFor(m \div 2)

\* ------------------------------------------------------ extendible hash table
\* std::hash<int> is the identity on the value converted to size_t; the low
\* bits of a negative key are those of its two's complement.
Hash(key) == key

\* a slot computed from the bits above the lowest one
IndexOfUpperBits(t, key) == (Hash(key) \div 2) % Pow2(t.global_depth)

IndexOf(t, key) == Hash(key) % Pow2(t.global_depth)

NewBucket(depth) == [depth |-> depth, list |-> <<>>]

NewTable == [global_depth |-> 0, num_buckets |-> 1, dir |-> <<1>>,
             bk |-> <<NewBucket(0)>>, diverged |-> FALSE]

IsFull(b, size) == Len(b.list) >= size

\* the bucket directory slot i (0-based) refers to
BucketAt(t, i) == t.bk[t.dir[i + 1]]

HasKey(list, key) == \E j \in 1 .. Len(list) : list[j][1] = key

BucketFind(b, key) ==
  IF HasKey(b.list, key)
  THEN LET j == CHOOSE j \in 1 .. Len(b.list) :
                  b.list[j][1] = key /\ \A h \in 1 .. (j - 1) : b.list[h][1] # key
       IN b.list[j][2]
  ELSE None

BucketRemove(b, key) ==
  IF HasKey(b.list, key)
  THEN LET j == CHOOSE j \in 1 .. Len(b.list) :
                  b.list[j][1] = key /\ \A h \in 1 .. (j - 1) : b.list[h][1] # key
           it == b.list[j]
       IN [b EXCEPT !.list = SelectSeq(b.list, LAMBDA e : e # it)]
  ELSE b

BucketInsert(b, size, key, value) ==
  IF IsFull(b, size) THEN b
  ELSE IF HasKey(b.list, key)
       THEN [b EXCEPT !.list = [j \in 1 .. Len(b.list) |->
                                  IF b.list[j][1] = key /\ (\A h \in 1 .. (j - 1) : b.list[h][1] # key)
                                  THEN <<key, value>> ELSE b.list[j]]]
       ELSE [b EXCEPT !.list = Append(b.list, <<key, value>>)]

Find(t, key) == BucketFind(BucketAt(t, IndexOf(t, key)), key)

Remove(t, key) ==
  LET bid == t.dir[IndexOf(t, key) + 1]
  IN [t EXCEPT !.bk[bid] = BucketRemove(t.bk[bid], key)]

RemoveResult(t, key) == HasKey(BucketAt(t, IndexOf(t, key)).list, key)

\* "double the slot array": append a copy of every slot, global_depth_ += 1
DoubleDir(t) == [t EXCEPT !.dir = t.dir \o t.dir, !.global_depth = t.global_depth + 1]

\* the slot the code pairs with idx when it splits a bucket of depth d
PartnerIndex(idx, d) ==
  LET mask == Pow2(d)
  IN IF (idx \div mask) % 2 = 0 THEN mask + idx ELSE idx - mask

\* the directory slots redirected to the two new buckets by one split
SplitSlots(t, idx, d) == <<idx, PartnerIndex(idx, d)>>

\* a rehash that puts no pair of the split bucket into the new buckets
RehashDropsItems(t, items, j, size) == t

RECURSIVE Rehash(_, _, _, _)
\* std::for_each over the old bucket's items: dir_[IndexOf(k)]->Insert(k, v)
Rehash(t, items, j, size) ==
  IF j > Len(items) THEN t
  ELSE LET bid == t.dir[IndexOf(t, items[j][1]) + 1]
       IN Rehash([t EXCEPT !.bk[bid] = BucketInsert(t.bk[bid], size, items[j][1], items[j][2])],
                 items, j + 1, size)

\* one iteration of the while (bucket->IsFull()) loop
SplitOnce(t, idx, size) ==
  LET bucket == BucketAt(t, idx)
      t1 == IF bucket.depth = t.global_depth THEN DoubleDir(t) ELSE t
      slots == SplitSlots(t1, idx, bucket.depth)
      n == Len(t1.bk)
      t2 == [t1 EXCEPT !.bk = Append(Append(t1.bk, NewBucket(bucket.depth + 1)),
                                     NewBucket(bucket.depth + 1)),
                       !.dir = [i \in 1 .. Len(t1.dir) |->
                                  IF i = slots[2] + 1 THEN n + 2
                                  ELSE IF i = slots[1] + 1 THEN n + 1
                                  ELSE t1.dir[i]],
                       !.num_buckets = t1.num_buckets + 1]
  IN Rehash(t2, bucket.list, 1, size)

RECURSIVE InsertLoop(_, _, _, _, _, _)
\* the split loop followed by bucket->Insert(key, value).  A split of a full
\* bucket whose depth already tells all keys apart leaves the bucket of key as
\* full as before: the loop never ends, which the model records as diverged.
InsertLoop(t, idx, key, value, size, maxbits) ==
  LET bucket == BucketAt(t, idx)
  IN IF ~IsFull(bucket, size)
     THEN [t EXCEPT !.bk[t.dir[idx + 1]] = BucketInsert(bucket, size, key, value)]
     ELSE IF bucket.depth >= maxbits
          THEN [t EXCEPT !.diverged = TRUE]
          ELSE LET t3 == SplitOnce(t, idx, size)
               IN InsertLoop(t3, IndexOf(t3, key), key, value, size, maxbits)

RECURSIVE FirstSeen(_, _, _)
FirstSeen(dir, i, acc) ==
  IF i > Len(dir) THEN acc
  ELSE IF \E j \in 1 .. Len(acc) : acc[j] = dir[i]
       THEN FirstSeen(dir, i + 1, acc)
       ELSE FirstSeen(dir, i + 1, Append(acc, dir[i]))

\* shared_ptr: a bucket no slot refers to is freed; bucket identities are not
\* observable, so buckets are numbered in the order the directory meets them
Collect(t) ==
  LET order == FirstSeen(t.dir, 1, <<>>)
      pos(b) == CHOOSE j \in 1 .. Len(order) : order[j] = b
  IN [t EXCEPT !.bk = [j \in 1 .. Len(order) |-> t.bk[order[j]]],
               !.dir = [i \in 1 .. Len(t.dir) |-> pos(t.dir[i])]]

Insert(t, key, value, size, maxbits) ==
  Collect(InsertLoop(t, IndexOf(t, key), key, value, size, maxbits))

\* -------------------------------------------- standalone hash table: actions
HTInit ==
  /\ bucket_size \in 1 .. MaxBucketSize
  /\ ht = NewTable
  /\ shadow = [k \in Keys |-> None]
  /\ ht_script = [calls |-> <<>>, pc |-> 1, idx |-> None]

HTInsert(k, v) ==
  /\ ~ht.diverged
  /\ ht' = Insert(ht, k, v, bucket_size, BitsFor(MaxKey))
  /\ shadow' = [shadow EXCEPT ![k] = v]
  /\ UNCHANGED bucket_size

HTRemove(k) ==
  /\ ~ht.diverged
  /\ ht' = Remove(ht, k)
  /\ shadow' = [shadow EXCEPT ![k] = None]
  /\ UNCHANGED bucket_size

\* Insert(key, 1) of a scenario, one step of its body at a time
\* size_t idx = IndexOf(key); bucket = dir_[idx]
HTInsertBegin ==
  /\ ht_script.pc <= Len(ht_script.calls)
  /\ ht_script.idx = None
  /\ ht_script' = [ht_script EXCEPT !.idx = IndexOf(ht, ht_script.calls[ht_script.pc])]
  /\ UNCHANGED <<ht, bucket_size, shadow>>

\* one iteration of while (bucket->IsFull()); the directory is doubled no
\* further than to MaxDepth bits
HTInsertSplit ==
  /\ ht_script.idx # None
  /\ IsFull(BucketAt(ht, ht_script.idx), bucket_size)
  /\ BucketAt(ht, ht_script.idx).depth < MaxDepth
  /\ ht' = SplitOnce(ht, ht_script.idx, bucket_size)
  /\ ht_script' = [ht_script EXCEPT !.idx = IndexOf(ht', ht_script.calls[ht_script.pc])]
  /\ UNCHANGED <<bucket_size, shadow>>

\* bucket->Insert(key, value) once the bucket is not full, and the return
HTInsertStore ==
  /\ ht_script.idx # None
  /\ ~IsFull(BucketAt(ht, ht_script.idx), bucket_size)
  /\ ht' = Collect([ht EXCEPT !.bk[ht.dir[ht_script.idx + 1]] =
                                 BucketInsert(@, bucket_size, ht_script.calls[ht_script.pc], 1)])
  /\ shadow' = [shadow EXCEPT ![ht_script.calls[ht_script.pc]] = 1]
  /\ ht_script' = [ht_script EXCEPT !.pc = @ + 1, !.idx = None]
  /\ UNCHANGED bucket_size

\* ------------------------------------------------------------- LRU-K replacer
NoFrame == [tracked |-> FALSE, evictable |-> FALSE, access_count |-> 0, timestamps |-> <<>>]

NewReplacer == [history_list |-> <<>>, cache_list |-> <<>>, frames |-> [f \in Frames |-> NoFrame],
                curr_size |-> 0, current_timestamp |-> 0]

\* Timestamps are only ever compared with one another (timestamps_.front() <
\* pivot), so the replacer keeps each recorded timestamp as its rank among the
\* recorded ones; current_timestamp_ itself stays the count of accesses.
Ranked(r) ==
  LET all == UNION {{r.frames[f].timestamps[j] : j \in 1 .. Len(r.frames[f].timestamps)} :
                    f \in DOMAIN r.frames}
      rank(t) == Cardinality({s \in all : s <= t})
  IN [r EXCEPT !.frames = [f \in DOMAIN r.frames |->
                             [r.frames[f] EXCEPT !.timestamps =
                                [j \in 1 .. Len(r.frames[f].timestamps) |->
                                   rank(r.frames[f].timestamps[j])]]]]

\* list.erase(pos_iter_) of the node that holds frame id
Erase(list, id) == SelectSeq(list, LAMBDA e : e # id)

InsertAt(list, p, id) == SubSeq(list, 1, p - 1) \o <<id>> \o SubSeq(list, p, Len(list))

IndexIn(list, id) == CHOOSE j \in 1 .. Len(list) : list[j] = id

\* a scan that never advances
ScanNone(list, frames, p, pivot) == p

\* first position >= start whose frame has timestamps_.front() >= pivot, else end()
RECURSIVE ScanFrom(_, _, _, _)
ScanFrom(list, frames, p, pivot) ==
  IF p <= Len(list) /\ frames[list[p]].timestamps[1] < pivot
  THEN ScanFrom(list, frames, p + 1, pivot)
  ELSE p

\* a scan that returns the last evictable frame of the list instead of the first
LastEvictable(list, frames) ==
  IF \E j \in 1 .. Len(list) : frames[list[j]].evictable
  THEN LET j == CHOOSE j \in 1 .. Len(list) :
                  frames[list[j]].evictable /\ \A h \in (j + 1) .. Len(list) : ~frames[list[h]].evictable
       IN list[j]
  ELSE None

FirstEvictable(list, frames) ==
  IF \E j \in 1 .. Len(list) : frames[list[j]].evictable
  THEN LET j == CHOOSE j \in 1 .. Len(list) :
                  frames[list[j]].evictable /\ \A h \in 1 .. (j - 1) : ~frames[list[h]].evictable
       IN list[j]
  ELSE None

\* a victim taken from cache_list before history_list
VictimCacheFirst(r) ==
  IF r.curr_size <= 0 THEN None
  ELSE IF FirstEvictable(r.cache_list, r.frames) # None
       THEN FirstEvictable(r.cache_list, r.frames)
       ELSE FirstEvictable(r.history_list, r.frames)

\* the frame Evict returns, None when it returns false
Victim(r) ==
  IF r.curr_size <= 0 THEN None
  ELSE IF FirstEvictable(r.history_list, r.frames) # None
       THEN FirstEvictable(r.history_list, r.frames)
       ELSE FirstEvictable(r.cache_list, r.frames)

\* an eviction that leaves the victim's entry in frames_
EvictKeepsFrame(r) ==
  LET id == Victim(r)
  IN IF id = None THEN r
     ELSE [r EXCEPT !.history_list = Erase(r.history_list, id),
                    !.cache_list = Erase(r.cache_list, id),
                    !.curr_size = r.curr_size - 1]

Evict(r) ==
  LET id == Victim(r)
  IN IF id = None THEN r
     ELSE IF FirstEvictable(r.history_list, r.frames) # None
          THEN Ranked([r EXCEPT !.history_list = Erase(r.history_list, id),
                                !.curr_size = r.curr_size - 1,
                                !.frames[id] = NoFrame])
          ELSE Ranked([r EXCEPT !.cache_list = Erase(r.cache_list, id),
                                !.curr_size = r.curr_size - 1,
                                !.frames[id] = NoFrame])

RecordAccess(r, id, k) ==
  LET now == r.current_timestamp + 1
      r0 == [r EXCEPT !.current_timestamp = now]
  IN Ranked(
     IF ~r.frames[id].tracked
     THEN [r0 EXCEPT !.curr_size = r.curr_size + 1,
                     !.history_list = Append(r.history_list, id),
                     !.frames[id] = [tracked |-> TRUE, evictable |-> TRUE,
                                     access_count |-> 1, timestamps |-> <<now>>]]
     ELSE LET count == r.frames[id].access_count + 1
              stamps == Append(r.frames[id].timestamps, now)
          IN IF count < k
             THEN [r0 EXCEPT !.frames[id].access_count = count,
                             !.frames[id].timestamps = stamps]
             ELSE IF count = k
                  THEN LET pivot == stamps[1]
                           p == ScanFrom(r.cache_list, r.frames, 1, pivot)
                       IN [r0 EXCEPT !.frames[id].access_count = count,
                                     !.frames[id].timestamps = stamps,
                                     !.history_list = Erase(r.history_list, id),
                                     !.cache_list = InsertAt(r.cache_list, p, id)]
                  ELSE LET popped == Tail(stamps)
                           pivot == popped[1]
                           old == IndexIn(r.cache_list, id)
                           rest == Erase(r.cache_list, id)
                           p == ScanFrom(rest, r.frames, old, pivot)
                       IN [r0 EXCEPT !.frames[id].access_count = count,
                                     !.frames[id].timestamps = popped,
                                     !.cache_list = InsertAt(rest, p, id)])

\* a flag change that leaves curr_size_ alone
SetEvictableFlagOnly(r, id, set_evictable) ==
  IF ~r.frames[id].tracked THEN r
  ELSE [r EXCEPT !.frames[id].evictable = set_evictable]

SetEvictable(r, id, set_evictable) ==
  IF ~r.frames[id].tracked THEN r
  ELSE [r EXCEPT !.curr_size = IF ~r.frames[id].evictable /\ set_evictable THEN r.curr_size + 1
                               ELSE IF r.frames[id].evictable /\ ~set_evictable THEN r.curr_size - 1
                               ELSE r.curr_size,
                 !.frames[id].evictable = set_evictable]

\* a Remove without the evictable check
RemoveNeverAborts(r, id) == FALSE

\* Remove of a tracked frame that is not evictable trips BUSTUB_ASSERT
RemoveAborts(r, id) == r.frames[id].tracked /\ ~r.frames[id].evictable

ReplacerRemove(r, id, k) ==
  IF ~r.frames[id].tracked THEN r
  ELSE Ranked([r EXCEPT !.cache_list = IF r.frames[id].access_count >= k
                                       THEN Erase(r.cache_list, id) ELSE r.cache_list,
                        !.history_list = IF r.frames[id].access_count >= k
                                         THEN r.history_list ELSE Erase(r.history_list, id),
                        !.frames[id] = NoFrame,
                        !.curr_size = r.curr_size - 1])

\* ------------------------------------------------ standalone replacer: actions
\* BUSTUB_ASSERT(expr, message): the process goes on iff expr holds
BUSTUB_ASSERT(expr) == expr

NewLRU == [history_list |-> <<>>, cache_list |-> <<>>, frames |-> [f \in FrameIds |-> NoFrame],
           curr_size |-> 0, current_timestamp |-> 0]

\* "static_cast<size_t>(frame_id) > this->replacer_size_"
InvalidFrame(id, size) == id > size

\* the ghost log without the accesses of a frame that is no longer tracked
Forget(log, id) == SelectSeq(log, LAMBDA e : e # id)

LRUInit ==
  /\ lru = NewLRU
  /\ lru_aborted = FALSE
  /\ lru_log = <<>>
  /\ lru_evicted = {}

\* the standalone replacer is not in use
LRUIdle == LRUInit /\ lru_size = 1 /\ lru_k = ReplacerK /\ script = <<>>

LRURecordAccess(id) ==
  /\ ~lru_aborted
  /\ IF BUSTUB_ASSERT(~InvalidFrame(id, lru_size))
     THEN /\ lru' = RecordAccess(lru, id, lru_k)
          /\ lru_log' = Append(lru_log, id)
          /\ UNCHANGED lru_aborted
     ELSE /\ lru' = [lru EXCEPT !.current_timestamp = lru.current_timestamp + 1]
          /\ lru_aborted' = TRUE
          /\ UNCHANGED lru_log
  /\ UNCHANGED <<lru_size, lru_k, lru_evicted>>

LRUSetEvictable(id, set_evictable) ==
  /\ ~lru_aborted
  /\ lru' = SetEvictable(lru, id, set_evictable)
  /\ UNCHANGED <<lru_size, lru_k, lru_aborted, lru_log, lru_evicted, script>>

LRUEvict ==
  /\ ~lru_aborted
  /\ lru' = Evict(lru)
  /\ lru_log' = IF Victim(lru) = None THEN lru_log ELSE Forget(lru_log, Victim(lru))
  /\ lru_evicted' = IF Victim(lru) = None THEN lru_evicted ELSE lru_evicted \cup {Victim(lru)}
  /\ UNCHANGED <<lru_size, lru_k, lru_aborted, script>>

LRURemove(id) ==
  /\ ~lru_aborted
  /\ IF BUSTUB_ASSERT(~RemoveAborts(lru, id))
     THEN /\ lru' = ReplacerRemove(lru, id, lru_k)
          /\ lru_log' = IF lru.frames[id].tracked THEN Forget(lru_log, id) ELSE lru_log
          /\ UNCHANGED lru_aborted
     ELSE /\ lru_aborted' = TRUE
          /\ UNCHANGED <<lru, lru_log>>
  /\ UNCHANGED <<lru_size, lru_k, lru_evicted, script>>

\* a scenario makes its next access
LRUPlay ==
  /\ script # <<>>
  /\ LRURecordAccess(Head(script))
  /\ script' = Tail(script)

\* ---- the replacer for any k_ >= 1
\* RecordAccess of a tracked frame whose count passes k_ while the frame is on
\* history_list_ (k_ = 1: the first access put it there with count 1 = k_):
\* cache_list_.erase(frame->pos_iter_) is handed an iterator of history_list_
RecordAccessWrongList(r, id, k) ==
  /\ r.frames[id].tracked
  /\ r.frames[id].access_count + 1 > k
  /\ ~(\E j \in 1 .. Len(r.cache_list) : r.cache_list[j] = id)

\* Remove of a frame with count >= k_ that is on history_list_: the same
\* erase through the wrong list
RemoveWrongList(r, id, k) ==
  /\ r.frames[id].tracked
  /\ r.frames[id].access_count >= k
  /\ ~(\E j \in 1 .. Len(r.cache_list) : r.cache_list[j] = id)

\* what the erase through the wrong list and the scan after it can leave
\* behind when RecordAccess returns: the node is unhooked from the list it is
\* linked in, the scan runs along history_list_ from the node's successor, and
\* the node is linked in again before history_list_'s end
RecordAccessRelinked(r, id) ==
  Ranked([r EXCEPT !.current_timestamp = r.current_timestamp + 1,
                   !.frames[id].access_count = r.frames[id].access_count + 1,
                   !.frames[id].timestamps =
                      Tail(Append(r.frames[id].timestamps, r.current_timestamp + 1)),
                   !.history_list = Append(Erase(r.history_list, id), id)])

\* what the erase through the wrong list leaves behind when Remove returns:
\* the node is unhooked from history_list_, the list it is linked in
RemoveUnhooked(r, id) ==
  Ranked([r EXCEPT !.history_list = Erase(r.history_list, id),
                   !.frames[id] = NoFrame,
                   !.curr_size = r.curr_size - 1])

\* RecordAccess for any k_: undefined behaviour ends the process, never
\* returns, or returns with the node relinked
LRURecordAccessAnyK(id) ==
  IF ~InvalidFrame(id, lru_size) /\ RecordAccessWrongList(lru, id, lru_k)
  THEN /\ ~lru_aborted
       /\ \/ /\ lru_aborted' = TRUE
             /\ UNCHANGED <<lru, lru_log>>
          \/ /\ lru' = RecordAccessRelinked(lru, id)
             /\ lru_log' = Append(lru_log, id)
             /\ UNCHANGED lru_aborted
       /\ UNCHANGED <<lru_size, lru_k, lru_evicted>>
  ELSE LRURecordAccess(id)

\* Remove for any k_: undefined behaviour ends the process or returns with
\* the node unhooked
LRURemoveAnyK(id) ==
  IF ~RemoveAborts(lru, id) /\ RemoveWrongList(lru, id, lru_k)
  THEN /\ ~lru_aborted
       /\ \/ /\ lru_aborted' = TRUE
             /\ UNCHANGED <<lru, lru_log>>
          \/ /\ lru' = RemoveUnhooked(lru, id)
             /\ lru_log' = Forget(lru_log, id)
             /\ UNCHANGED lru_aborted
       /\ UNCHANGED <<lru_size, lru_k, lru_evicted, script>>
  ELSE LRURemove(id)

\* ----------------------------------------------------------------- disk manager
WritePage(dk, page_id, data) ==
  IF page_id \in DOMAIN dk THEN [dk EXCEPT ![page_id] = data] ELSE dk

ReadPage(dk, page_id) == IF page_id \in DOMAIN dk THEN dk[page_id] ELSE 0

\* ------------------------------------------------------- buffer pool manager
NewPage == [page_id |-> INVALID_PAGE_ID, pin_count |-> 0, is_dirty |-> FALSE, data |-> 0]

PtBits == BitsFor(MaxPageId)

Running == ~aborted

\* "1. pick a free frame": the free list first, else a victim of the replacer,
\* written back when dirty, unmapped and reset
PickFrame(pgs, fl, r, pt, dk) ==
  IF fl # <<>>
  THEN [ok |-> TRUE, f |-> Head(fl), pages |-> pgs, free_list |-> Tail(fl),
        replacer |-> r, page_table |-> pt, disk |-> dk]
  ELSE IF Victim(r) # None
       THEN LET f == Victim(r)
                p_writeback == pgs[f]
            IN [ok |-> TRUE, f |-> f,
                pages |-> [pgs EXCEPT ![f].pin_count = 0,
                                      ![f].page_id = INVALID_PAGE_ID,
                                      ![f].data = 0],
                free_list |-> fl,
                replacer |-> Evict(r),
                page_table |-> Remove(pt, p_writeback.page_id),
                disk |-> IF p_writeback.is_dirty
                         THEN WritePage(dk, p_writeback.page_id, p_writeback.data)
                         ELSE dk]
       ELSE [ok |-> FALSE, f |-> None, pages |-> pgs, free_list |-> fl,
             replacer |-> r, page_table |-> pt, disk |-> dk]

\* what NewPgImp and the miss path of FetchPgImp do to the picked frame
InstallPage(pk, page_id, data) ==
  [pk EXCEPT !.page_table = Insert(pk.page_table, page_id, pk.f, pt_bucket_size, PtBits),
             !.replacer = SetEvictable(RecordAccess(pk.replacer, pk.f, ReplacerK), pk.f, FALSE),
             !.pages = [pk.pages EXCEPT ![pk.f].page_id = page_id,
                                        ![pk.f].pin_count = 1,
                                        ![pk.f].data = data]]

\* the frame of the page NewPgImp returns, None for nullptr
NewPgFrame == PickFrame(pages, free_list, replacer, page_table, disk).f

NewPgImp ==
  \E pk \in {PickFrame(pages, free_list, replacer, page_table, disk)} :
     /\ Running
     /\ IF ~pk.ok
        THEN UNCHANGED <<pages, free_list, page_table, replacer, next_page_id, disk, returned>>
        ELSE \E st \in {InstallPage(pk, next_page_id, pk.pages[pk.f].data)} :
                /\ pages' = st.pages
                /\ free_list' = st.free_list
                /\ page_table' = st.page_table
                /\ replacer' = st.replacer
                /\ disk' = st.disk
                /\ returned' = returned \cup {next_page_id}
                /\ next_page_id' = next_page_id + 1
     /\ UNCHANGED <<committed, aborted, pt_bucket_size, htvars, lruvars, btvars>>

\* the frame of the page FetchPgImp returns, None for nullptr
FetchPgFrame(page_id) ==
  IF Find(page_table, page_id) # None THEN Find(page_table, page_id)
  ELSE PickFrame(pages, free_list, replacer, page_table, disk).f

FetchPgImp(page_id) ==
  \E f_id \in {Find(page_table, page_id)} :
     /\ Running
     /\ IF f_id # None
        THEN /\ pages' = [pages EXCEPT ![f_id].pin_count = pages[f_id].pin_count + 1]
             /\ replacer' = SetEvictable(RecordAccess(replacer, f_id, ReplacerK), f_id, FALSE)
             /\ UNCHANGED <<free_list, page_table, disk>>
        ELSE \E pk \in {PickFrame(pages, free_list, replacer, page_table, disk)} :
               IF ~pk.ok
               THEN UNCHANGED <<pages, free_list, page_table, replacer, disk>>
               ELSE \E st \in {InstallPage(pk, page_id, ReadPage(pk.disk, page_id))} :
                       /\ pages' = st.pages
                       /\ free_list' = st.free_list
                       /\ page_table' = st.page_table
                       /\ replacer' = st.replacer
                       /\ disk' = st.disk
     /\ UNCHANGED <<next_page_id, returned, committed, aborted, pt_bucket_size, htvars, lruvars, btvars>>

\* "page->is_dirty_ = is_dirty"
MarkDirty(old, is_dirty) == is_dirty

\* what UnpinPgImp returns
UnpinPgResult(page_id) ==
  LET f_id == Find(page_table, page_id)
  IN IF f_id = None THEN FALSE ELSE pages[f_id].pin_count > 0

UnpinPgImp(page_id, is_dirty) ==
  \E f_id \in {Find(page_table, page_id)} :
     /\ Running
     /\ IF f_id = None
        THEN UNCHANGED <<pages, replacer, committed>>
        ELSE LET marked == [pages EXCEPT ![f_id].is_dirty = MarkDirty(pages[f_id].is_dirty, is_dirty)]
             IN IF pages[f_id].pin_count <= 0
                THEN /\ pages' = marked
                     /\ UNCHANGED <<replacer, committed>>
                ELSE /\ pages' = [marked EXCEPT ![f_id].pin_count = pages[f_id].pin_count - 1]
                     /\ replacer' = IF pages[f_id].pin_count - 1 = 0
                                    THEN SetEvictable(replacer, f_id, TRUE) ELSE replacer
                     /\ committed' = IF is_dirty
                                     THEN [committed EXCEPT ![page_id] = pages[f_id].data]
                                     ELSE committed
     /\ UNCHANGED <<free_list, page_table, next_page_id, disk, returned, aborted,
                    pt_bucket_size, htvars, lruvars, btvars>>

\* FlushPgNonLockImp on the pool state st = [pages, disk] (ok: its result)
FlushPgNonLockImp(st, page_id) ==
  IF page_id = INVALID_PAGE_ID THEN [st EXCEPT !.ok = FALSE]
  ELSE LET f_id == Find(page_table, page_id)
       IN IF f_id = None THEN [st EXCEPT !.ok = FALSE]
          ELSE [ok |-> TRUE,
                disk |-> WritePage(st.disk, page_id, st.pages[f_id].data),
                pages |-> [st.pages EXCEPT ![f_id].is_dirty = FALSE]]

\* what FlushPgImp returns
FlushPgResult(page_id) ==
  FlushPgNonLockImp([ok |-> TRUE, disk |-> disk, pages |-> pages], page_id).ok

FlushPgImp(page_id) ==
  \E st \in {FlushPgNonLockImp([ok |-> TRUE, disk |-> disk, pages |-> pages], page_id)} :
     /\ Running
     /\ pages' = st.pages
     /\ disk' = st.disk
     /\ UNCHANGED <<free_list, page_table, replacer, next_page_id, returned, committed,
                    aborted, pt_bucket_size, htvars, lruvars, btvars>>

RECURSIVE FlushFrom(_, _)
\* for (i = 0; i < pool_size_; i++) FlushPgNonLockImp(pages_[i].page_id_)
FlushFrom(st, i) ==
  IF i >= PoolSize THEN st
  ELSE FlushFrom(FlushPgNonLockImp(st, st.pages[i].page_id), i + 1)

FlushAllPgsImp ==
  \E st \in {FlushFrom([ok |-> TRUE, disk |-> disk, pages |-> pages], 0)} :
     /\ Running
     /\ pages' = st.pages
     /\ disk' = st.disk
     /\ UNCHANGED <<free_list, page_table, replacer, next_page_id, returned, committed,
                    aborted, pt_bucket_size, htvars, lruvars, btvars>>

\* what DeletePgImp returns
DeletePgResult(page_id) ==
  LET f_id == Find(page_table, page_id)
  IN IF f_id = None THEN TRUE ELSE ~(pages[f_id].pin_count > 0)

DeletePgImp(page_id) ==
  \E f_id \in {Find(page_table, page_id)} :
     /\ Running
     /\ IF f_id = None
        THEN UNCHANGED <<pages, free_list, page_table, replacer, committed, aborted>>
        ELSE IF pages[f_id].pin_count > 0
             THEN UNCHANGED <<pages, free_list, page_table, replacer, committed, aborted>>
             ELSE IF RemoveAborts(replacer, f_id)
                  THEN /\ aborted' = TRUE
                       /\ UNCHANGED <<pages, free_list, page_table, replacer, committed>>
                  ELSE /\ replacer' = ReplacerRemove(replacer, f_id, ReplacerK)
                       /\ pages' = [pages EXCEPT ![f_id] = NewPage]
                       /\ page_table' = Remove(page_table, page_id)
                       /\ free_list' = Append(free_list, f_id)
                       /\ committed' = [committed EXCEPT ![page_id] = None]
                       /\ UNCHANGED aborted
     /\ UNCHANGED <<next_page_id, disk, returned, pt_bucket_size, htvars, lruvars, btvars>>

\* the holder of a pinned frame changes the bytes of the page in it
WriteData(f, d) ==
  /\ Running
  /\ pages[f].pin_count > 0
  /\ pages[f].page_id # INVALID_PAGE_ID
  /\ pages[f].data # d
  /\ pages' = [pages EXCEPT ![f].data = d]
  /\ committed' = [committed EXCEPT ![pages[f].page_id] = None]
  /\ UNCHANGED <<free_list, page_table, replacer, next_page_id, disk, aborted, returned,
                 pt_bucket_size, htvars, lruvars, btvars>>

BPMInit ==
  /\ pages = [f \in Frames |-> NewPage]
  /\ free_list = [i \in 1 .. PoolSize |-> i - 1]
  /\ page_table = NewTable
  /\ replacer = NewReplacer
  /\ next_page_id = 0
  /\ disk = [p \in PageIds |-> 0]
  /\ aborted = FALSE
  /\ returned = {}
  /\ committed = [p \in PageIds |-> None]
  /\ latch = FALSE
  /\ thread = [t \in Threads |-> "idle"]
  /\ pinned = [p \in PageIds |-> 0]
  /\ obtained = [p \in PageIds |-> None]
  /\ held = [t \in Threads |-> <<>>]
  /\ prog = [t \in Threads |-> <<>>]

\* std::scoped_lock lock(latch_), the first statement of every public
\* operation of the pool: the thread goes on once latch_ is free
Lock(t) ==
  /\ thread[t] = "idle"
  /\ ~latch
  /\ latch' = TRUE
  /\ thread' = [thread EXCEPT ![t] = "locked"]
  /\ UNCHANGED <<pinned, obtained, latchvars, pages, free_list, page_table, pt_bucket_size,
                 replacer, next_page_id, disk, aborted, returned, committed, htvars, lruvars, btvars>>

\* the body of an operation runs in the thread that holds latch_, and the
\* lock's destructor gives latch_ back when the operation returns
Locked(t) ==
  /\ thread[t] = "locked"
  /\ latch' = FALSE
  /\ thread' = [thread EXCEPT ![t] = "idle"]
  /\ UNCHANGED latchvars

\* the caller of new_page / fetch_page gets frame f for page p (None: nullptr)
Obtains(p, f) ==
  IF f # None /\ p \in PageIds
  THEN /\ pinned' = [pinned EXCEPT ![p] = @ + 1]
       /\ obtained' = [obtained EXCEPT ![p] = f]
  ELSE UNCHANGED <<pinned, obtained>>

\* the caller of unpin_page gets ok for page p
Releases(p, ok) ==
  /\ pinned' = IF ok THEN [pinned EXCEPT ![p] = @ - 1] ELSE pinned
  /\ obtained' = IF ok /\ pinned[p] = 1 THEN [obtained EXCEPT ![p] = None] ELSE obtained

\* ---- the latches of the pool, its page table and its replacer
\* A call is the sequence of lock and unlock steps its code path runs; what
\* the path does to the data between them is left out.
Latches == {"pool", "table", "replacer"}

Acq(l) == [op |-> "lock", latch |-> l]
Rel(l) == [op |-> "unlock", latch |-> l]

\* a method of the hash table or of the replacer calls back into the pool
CallIntoPool(l) == <<Acq(l), Acq("pool"), Rel("pool"), Rel(l)>>

\* a public method of the hash table or of the replacer: std::scoped_lock
\* lock(latch_) is its first statement, its body calls no method that locks,
\* and the latch is given back when it returns
Call(l) == <<Acq(l), Rel(l)>>

TableCall == Call("table")
ReplacerCall == Call("replacer")

\* a public operation of the pool holds latch_ from its first statement to
\* its return; body is the calls it makes in between
PoolCall(body) == <<Acq("pool")>> \o body \o <<Rel("pool")>>

\* free frame: Insert, RecordAccess, SetEvictable; eviction: Evict, Remove,
\* then the same three; no frame: Evict alone
NewPgCalls ==
  { PoolCall(TableCall \o ReplacerCall \o ReplacerCall),
    PoolCall(ReplacerCall \o TableCall \o TableCall \o ReplacerCall \o ReplacerCall),
    PoolCall(ReplacerCall) }

\* Find first; a hit goes on with RecordAccess and SetEvictable, a miss
\* picks a frame as new_page does
FetchPgCalls ==
  { PoolCall(TableCall \o ReplacerCall \o ReplacerCall),
    PoolCall(TableCall \o TableCall \o ReplacerCall \o ReplacerCall),
    PoolCall(TableCall \o ReplacerCall \o TableCall \o TableCall \o ReplacerCall \o ReplacerCall),
    PoolCall(TableCall \o ReplacerCall) }

\* Find, and SetEvictable when the pin count drops to 0
UnpinPgCalls == { PoolCall(TableCall), PoolCall(TableCall \o ReplacerCall) }

\* FlushPgNonLockImp takes no latch of the pool: it returns at once for
\* INVALID_PAGE_ID and calls Find otherwise
FlushPgNonLockCalls == { <<>>, TableCall }

FlushPgCalls == { PoolCall(body) : body \in FlushPgNonLockCalls }

\* the loop of FlushAllPgsImp: one FlushPgNonLockImp per frame
RECURSIVE FlushAllBodies(_)
FlushAllBodies(n) ==
  IF n = 0 THEN {<<>>}
  ELSE { b \o rest : b \in FlushPgNonLockCalls, rest \in FlushAllBodies(n - 1) }

FlushAllPgsCalls == { PoolCall(body) : body \in FlushAllBodies(PoolSize) }

\* Find; then, for an unpinned resident page, replacer Remove and table Remove
DeletePgCalls == { PoolCall(TableCall), PoolCall(TableCall \o ReplacerCall \o TableCall) }

\* every call a thread can make: the pool's operations, and the methods of a
\* hash table and of a replacer called from outside the pool
AllCalls ==
  NewPgCalls \cup FetchPgCalls \cup UnpinPgCalls \cup FlushPgCalls \cup FlushAllPgsCalls
    \cup DeletePgCalls \cup {TableCall, ReplacerCall}

Holder(l) == {t \in Threads : \E i \in 1 .. Len(held[t]) : held[t][i] = l}

\* everything but the latches
nolatchvars == <<pages, free_list, page_table, pt_bucket_size, replacer, next_page_id, disk,
                 aborted, returned, committed, latch, thread, pinned, obtained,
                 htvars, lruvars, btvars>>

\* an idle thread calls an operation
LatchCall(t) ==
  /\ prog[t] = <<>>
  /\ \E c \in AllCalls : prog' = [prog EXCEPT ![t] = c]
  /\ UNCHANGED <<held, nolatchvars>>

\* std::mutex::lock: the thread goes on once no thread holds the latch (a
\* thread that holds it itself waits for ever: the mutex is not recursive)
LatchLock(t) ==
  /\ prog[t] # <<>>
  /\ Head(prog[t]).op = "lock"
  /\ Holder(Head(prog[t]).latch) = {}
  /\ held' = [held EXCEPT ![t] = Append(@, Head(prog[t]).latch)]
  /\ prog' = [prog EXCEPT ![t] = Tail(@)]
  /\ UNCHANGED nolatchvars

\* the scoped_lock's destructor
LatchUnlock(t) ==
  /\ prog[t] # <<>>
  /\ Head(prog[t]).op = "unlock"
  /\ held' = [held EXCEPT ![t] = SelectSeq(@, LAMBDA l : l # Head(prog[t]).latch)]
  /\ prog' = [prog EXCEPT ![t] = Tail(@)]
  /\ UNCHANGED nolatchvars

\* the caps of a run: the logical clock, the pin counts, the page ids handed out
Capped(maxtime, maxpin) ==
  /\ replacer'.current_timestamp <= maxtime
  /\ next_page_id' <= MaxPageId + 1
  /\ \A f \in Frames : pages'[f].pin_count <= maxpin

\* pages that exist: a caller passes ids that new_page has handed out
Allocated == {p \in PageIds : p < next_page_id}

\* ------------------------------------------------------------------ B+ tree
\* The tree reaches its pages through the buffer pool (FetchPage, NewPage,
\* UnpinPage, DeletePage).  Here the pool is the map tree.pages from page id to
\* the tree page stored under it: NewPage hands out next_page_id, DeletePage
\* unmaps the id, and a page the tree holds is always fetched successfully.
\* array_ is the sequence of its first size_ pairs; slot i of the code is
\* array[i + 1].

\* std::lower_bound(array_ + first, array_ + first + len, key) as a slot index
RECURSIVE lower_bound(_, _, _, _)
lower_bound(array, first, len, key) ==
  IF len <= 0 THEN first
  ELSE LET half == len \div 2
           mid == first + half
       IN IF array[mid + 1][1] < key
          THEN lower_bound(array, mid + 1, len - half - 1, key)
          ELSE lower_bound(array, first, half, key)

NoTreePage == [page_type |-> "INVALID", array |-> <<>>, max_size |-> 0,
               parent_page_id |-> INVALID_PAGE_ID, next_page_id |-> INVALID_PAGE_ID]

GetSize(p) == Len(p.array)
GetMinSize(p) == (p.max_size + 1) \div 2
IsLeafPage(p) == p.page_type = "LEAF"
IsRootPage(p) == p.parent_page_id = INVALID_PAGE_ID
ValueAt(p, index) == p.array[index + 1][2]
KeyAt(p, index) == p.array[index + 1][1]

\* array_[index].first = key; a slot at or beyond size_ is not part of the page
SetKeyAt(p, index, key) ==
  IF index < GetSize(p) THEN [p EXCEPT !.array[index + 1] = <<key, @[2]>>] ELSE p

\* ---- leaf page
LeafInit(parent_id, max_size) ==
  [page_type |-> "LEAF", array |-> <<>>, max_size |-> max_size,
   parent_page_id |-> parent_id, next_page_id |-> INVALID_PAGE_ID]

LeafKeyPosition(p, key) == lower_bound(p.array, 0, GetSize(p), key)

\* the value stored under key, None when Search returns false
LeafSearch(p, key) ==
  LET pos == LeafKeyPosition(p, key)
  IN IF pos = GetSize(p) \/ KeyAt(p, pos) # key THEN None ELSE ValueAt(p, pos)

LeafInsert(p, key, value) ==
  LET pos == LeafKeyPosition(p, key)
  IN IF pos = GetSize(p) THEN [p EXCEPT !.array = Append(@, <<key, value>>)]
     ELSE IF KeyAt(p, pos) = key THEN p
     ELSE [p EXCEPT !.array = InsertAt(@, pos + 1, <<key, value>>)]

\* <<this page, the new leaf>>
LeafSplitTo(p) ==
  LET idx == GetMinSize(p)
      new_leaf_page == [LeafInit(p.parent_page_id, p.max_size)
                          EXCEPT !.array = SubSeq(p.array, idx + 1, GetSize(p))]
  IN <<[p EXCEPT !.array = SubSeq(@, 1, idx)], new_leaf_page>>

LeafRemoves(p, key) ==
  LET pos == LeafKeyPosition(p, key)
  IN ~(pos = GetSize(p) \/ KeyAt(p, pos) # key)

LeafRemove(p, key) ==
  LET pos == LeafKeyPosition(p, key)
  IN IF LeafRemoves(p, key)
     THEN [p EXCEPT !.array = SubSeq(@, 1, pos) \o SubSeq(@, pos + 2, Len(@))]
     ELSE p

\* move_backward shifts the range [0, GetSize()) of the target, bounded by the
\* size of this page and not of the target, so that it ends at slot
\* target size + 1: with more pairs here than in the target the range reaches
\* past the target's pairs and the destination starts before array_[0]
LeafMoveRearOutOfBounds(this, target) == GetSize(this) > GetSize(target)

\* <<this page, target page>>, within bounds
LeafMoveRearToFrontOf(this, target) ==
  LET s == GetSize(this)
      t == GetSize(target)
      shifted == [i \in 1 .. (t + 1) |->
                    IF i > t + 1 - s THEN target.array[i - (t + 1 - s)]
                    ELSE target.array[i]]
  IN <<[this EXCEPT !.array = SubSeq(@, 1, s - 1)],
       [target EXCEPT !.array = [shifted EXCEPT ![1] = this.array[s]]]>>

LeafMoveFrontToRearOf(this, target) ==
  <<[this EXCEPT !.array = Tail(@)],
    [target EXCEPT !.array = Append(@, this.array[1])]>>

\* the pairs are copied behind the target's pairs, and the target's size_ stays
LeafMoveAllTo(this, target) ==
  <<[this EXCEPT !.array = <<>>],
    [target EXCEPT !.next_page_id = this.next_page_id]>>

\* ---- internal page
InternalInit(parent_id, max_size) ==
  [page_type |-> "INTERNAL", array |-> <<>>, max_size |-> max_size,
   parent_page_id |-> parent_id, next_page_id |-> INVALID_PAGE_ID]

\* std::distance(array_, find_if(...)): GetSize() when no slot holds value
ValuePosition(p, value) ==
  IF \E i \in 1 .. GetSize(p) : p.array[i][2] = value
  THEN (CHOOSE i \in 1 .. GetSize(p) :
          /\ p.array[i][2] = value
          /\ \A j \in 1 .. (i - 1) : p.array[j][2] # value) - 1
  ELSE GetSize(p)

InternalSearch(p, key) ==
  LET target == lower_bound(p.array, 1, GetSize(p) - 1, key)
  IN IF target = GetSize(p) THEN ValueAt(p, GetSize(p) - 1)
     ELSE IF KeyAt(p, target) = key THEN ValueAt(p, target)
     ELSE ValueAt(p, target - 1)

InternalKeyPosition(p, key) == lower_bound(p.array, 1, GetSize(p) - 1, key)

InternalInsert(p, key, value) ==
  [p EXCEPT !.array = InsertAt(@, InternalKeyPosition(p, key) + 1, <<key, value>>)]

\* <<this page, the new page>>
InternalSplitTo(p, key, value) ==
  LET pos == InternalKeyPosition(p, key)
      split_pos == GetMinSize(p)
      to_page == InternalInit(p.parent_page_id, p.max_size)
  IN IF pos < split_pos
     THEN <<InternalInsert([p EXCEPT !.array = SubSeq(@, 1, split_pos)], key, value),
            [to_page EXCEPT !.array = SubSeq(p.array, split_pos, GetSize(p))]>>
     ELSE <<[p EXCEPT !.array = SubSeq(@, 1, split_pos)],
            InternalInsert([to_page EXCEPT !.array = SubSeq(p.array, split_pos + 1, GetSize(p))],
                           key, value)>>

InternalRemove(p, idx) ==
  [p EXCEPT !.array = SubSeq(@, 1, idx) \o SubSeq(@, idx + 2, Len(@))]

InternalMoveRearToFrontOf(this, target, target_page_risen_key) ==
  <<[this EXCEPT !.array = SubSeq(@, 1, Len(@) - 1)],
    [target EXCEPT !.array = <<this.array[GetSize(this)]>>
                               \o SetKeyAt(target, 0, target_page_risen_key).array]>>

InternalMoveFrontToRearOf(this, target, this_page_risen_key) ==
  <<[this EXCEPT !.array = Tail(@)],
    [target EXCEPT !.array = Append(@, <<this_page_risen_key, this.array[1][2]>>)]>>

InternalMoveAllTo(this, target, this_page_risen_key) ==
  <<[this EXCEPT !.array = <<>>],
    [target EXCEPT !.array = @ \o SetKeyAt(this, 0, this_page_risen_key).array]>>

\* ---- the tree
\* tree = [pages, root_page_id, next_page_id, header, deleted, status]
Unmapped == -3        \* the descent was handed a page id the pool has no tree page for

NewTree ==
  [pages |-> [id \in TreePageIds |-> NoTreePage],
   root_page_id |-> INVALID_PAGE_ID,
   next_page_id |-> 1,
   header |-> None,
   deleted |-> {},
   status |-> "ok"]

Mapped(t, id) == id \in TreePageIds /\ t.pages[id].page_type # "INVALID"

\* a BUSTUB_ASSERT has failed
TreeAborted(t) == [t EXCEPT !.status = "aborted"]

\* the code has fetched a page that was deleted, looked a page up in a parent
\* that does not hold it (the slot it then uses lies beyond size_), or written
\* outside array_: what the process does from here on is not defined by the code
TreeUndefined(t) == [t EXCEPT !.status = "undefined"]

IsEmpty(t) == t.root_page_id = INVALID_PAGE_ID

\* the page NewPage has handed out under id, filled in; an id beyond the
\* model's pool is never stored, and the step that asked for it is not taken
StorePage(t, id, p) ==
  [t EXCEPT !.pages = IF id \in TreePageIds THEN [@ EXCEPT ![id] = p] ELSE @,
            !.next_page_id = id + 1]

SetParentPageId(t, id, parent_id) ==
  IF id \in TreePageIds THEN [t EXCEPT !.pages[id].parent_page_id = parent_id] ELSE t

\* header_page->InsertRecord / UpdateRecord(index_name_, root_page_id_)
UpdateRootPageId(t) == [t EXCEPT !.header = t.root_page_id]

\* the loop that walks from page_id down to the leaf for key
RECURSIVE FindLeaf(_, _, _)
FindLeaf(t, page_id, key) ==
  IF ~Mapped(t, page_id) THEN Unmapped
  ELSE IF IsLeafPage(t.pages[page_id]) THEN page_id
  ELSE FindLeaf(t, InternalSearch(t.pages[page_id], key), key)

\* what GetValue returns: the value, None for false, Unmapped when it cannot
\* be told
GetValue(t, key) ==
  LET leaf_id == FindLeaf(t, t.root_page_id, key)
  IN IF leaf_id = Unmapped THEN Unmapped ELSE LeafSearch(t.pages[leaf_id], key)

StartNewTree(t, key, value) ==
  LET id == t.next_page_id
  IN UpdateRootPageId(
       [StorePage(t, id, LeafInsert(LeafInit(INVALID_PAGE_ID, leaf_max_size), key, value))
          EXCEPT !.root_page_id = id])

\* SetParentPageId(parent_id) on every page of ids
SetParents(t, ids, parent_id) ==
  IF \E id \in ids : ~Mapped(t, id) THEN TreeUndefined(t)
  ELSE [t EXCEPT !.pages = [id \in TreePageIds |->
                              IF id \in ids THEN [@[id] EXCEPT !.parent_page_id = parent_id]
                              ELSE @[id]]]

Children(p, from, to) == {p.array[i][2] : i \in (from + 1) .. to}

RECURSIVE InsertRisenKeyToParent(_, _, _, _)
InsertRisenKeyToParent(t, risen_key, origin_id, split_id) ==
  LET page_origin == t.pages[origin_id]
      parent_id == page_origin.parent_page_id
  IN IF IsRootPage(page_origin)
     THEN LET new_root_page_id == t.next_page_id
              tree_new_root_page ==
                [InternalInit(INVALID_PAGE_ID, internal_max_size)
                   EXCEPT !.array = <<<<0, origin_id>>, <<risen_key, split_id>>>>]
          IN UpdateRootPageId(
               SetParentPageId(
                 SetParentPageId(StorePage(t, new_root_page_id, tree_new_root_page),
                                 origin_id, new_root_page_id),
                 split_id, new_root_page_id))
     ELSE IF ~Mapped(t, parent_id) THEN TreeUndefined(t)
     ELSE IF GetSize(t.pages[parent_id]) < internal_max_size
     THEN [t EXCEPT !.pages[parent_id] = InternalInsert(@, risen_key, split_id)]
     ELSE LET new_page_id == t.next_page_id
              split == InternalSplitTo(t.pages[parent_id], risen_key, split_id)
              t1 == StorePage([t EXCEPT !.pages[parent_id] = split[1]], new_page_id, split[2])
              t2 == SetParents(t1, Children(split[2], 0, GetSize(split[2])), new_page_id)
          IN IF t2.status # "ok" THEN t2
             ELSE InsertRisenKeyToParent(t2, KeyAt(split[2], 0), parent_id, new_page_id)

InsertIntoLeaf(t, key, value) ==
  LET leaf_id == FindLeaf(t, t.root_page_id, key)
      leaf_page == t.pages[leaf_id]
      inserted == LeafInsert(leaf_page, key, value)
      new_page_id == t.next_page_id
      split == LeafSplitTo(inserted)
      t1 == StorePage([t EXCEPT !.pages[leaf_id] = [split[1] EXCEPT !.next_page_id = new_page_id]],
                      new_page_id, [split[2] EXCEPT !.next_page_id = inserted.next_page_id])
  IN IF leaf_id = Unmapped THEN TreeUndefined(t)
     ELSE IF GetSize(inserted) = GetSize(leaf_page) THEN t
     ELSE IF GetSize(inserted) < leaf_max_size THEN [t EXCEPT !.pages[leaf_id] = inserted]
     ELSE InsertRisenKeyToParent(t1, KeyAt(split[2], 0), leaf_id, new_page_id)

TreeInsert(t, key, value) ==
  IF IsEmpty(t) THEN StartNewTree(t, key, value) ELSE InsertIntoLeaf(t, key, value)

\* what Insert returns, where InsertIntoLeaf reaches a leaf
InsertResult(t, key, value) ==
  LET leaf_id == FindLeaf(t, t.root_page_id, key)
  IN IF IsEmpty(t) THEN TRUE
     ELSE /\ leaf_id # Unmapped
          /\ GetSize(LeafInsert(t.pages[leaf_id], key, value)) # GetSize(t.pages[leaf_id])

AddIntoDeletedPageSetSkipped(t, id) == t
AddIntoDeletedPageSet(t, id) == [t EXCEPT !.deleted = @ \cup {id}]

RECURSIVE ReBalanceInternal(_, _)
ReBalanceInternal(t, internal_id) ==
  LET internal_page == t.pages[internal_id]
      parent_id == internal_page.parent_page_id
      tree_parent_page == t.pages[parent_id]
      pos == ValuePosition(tree_parent_page, internal_id)
      prev_sibling == pos # 0
      sibling_pos == IF pos = 0 THEN pos + 1 ELSE pos - 1
      sibling_id == ValueAt(tree_parent_page, sibling_pos)
      sibling_page == t.pages[sibling_id]
      old_size == IF prev_sibling THEN GetSize(sibling_page) ELSE GetSize(internal_page)
  IN IF IsRootPage(internal_page) /\ GetSize(internal_page) = 1
     THEN LET only_child == ValueAt(internal_page, 0)
          IN IF ~Mapped(t, only_child) THEN TreeUndefined(t)
             ELSE AddIntoDeletedPageSet(
                    UpdateRootPageId([t EXCEPT !.pages[only_child].parent_page_id = INVALID_PAGE_ID,
                                               !.root_page_id = only_child]),
                    internal_id)
     ELSE IF GetSize(internal_page) >= GetMinSize(internal_page) THEN t
     ELSE IF ~Mapped(t, parent_id) THEN TreeUndefined(t)
     ELSE IF ~BUSTUB_ASSERT(GetSize(tree_parent_page) > 1) THEN TreeAborted(t)
     ELSE IF pos = GetSize(tree_parent_page) THEN TreeUndefined(t)
     ELSE IF ~Mapped(t, sibling_id) THEN TreeUndefined(t)
     ELSE IF GetSize(sibling_page) > GetMinSize(sibling_page)
     THEN IF prev_sibling
          THEN LET moved == InternalMoveRearToFrontOf(sibling_page, internal_page,
                                                      KeyAt(tree_parent_page, pos))
               IN SetParents([t EXCEPT !.pages[sibling_id] = moved[1],
                                       !.pages[internal_id] = moved[2],
                                       !.pages[parent_id] = SetKeyAt(@, pos, KeyAt(moved[2], 0))],
                             {ValueAt(moved[2], 0)}, internal_id)
          ELSE LET moved == InternalMoveFrontToRearOf(sibling_page, internal_page,
                                                      KeyAt(tree_parent_page, sibling_pos))
               IN SetParents([t EXCEPT !.pages[sibling_id] = moved[1],
                                       !.pages[internal_id] = moved[2],
                                       !.pages[parent_id] = SetKeyAt(@, sibling_pos, KeyAt(moved[1], 0))],
                             {ValueAt(moved[2], GetSize(moved[2]) - 1)}, internal_id)
     ELSE LET moved == IF prev_sibling
                       THEN InternalMoveAllTo(internal_page, sibling_page,
                                              KeyAt(tree_parent_page, pos))
                       ELSE InternalMoveAllTo(sibling_page, internal_page,
                                              KeyAt(tree_parent_page, sibling_pos))
              from_id == IF prev_sibling THEN internal_id ELSE sibling_id
              to_id == IF prev_sibling THEN sibling_id ELSE internal_id
              t1 == SetParents([t EXCEPT !.pages[from_id] = moved[1], !.pages[to_id] = moved[2]],
                               Children(moved[2], old_size, GetSize(moved[2])), to_id)
              t2 == AddIntoDeletedPageSet(
                      [t1 EXCEPT !.pages[parent_id] =
                                   InternalRemove(@, IF prev_sibling THEN pos ELSE sibling_pos)],
                      from_id)
          IN IF t1.status # "ok" THEN t1 ELSE ReBalanceInternal(t2, parent_id)

ReBalanceAfterDeletion(t, leaf_id) ==
  LET tree_leaf_page == t.pages[leaf_id]
      parent_id == tree_leaf_page.parent_page_id
      tree_parent_page == t.pages[parent_id]
      pos == ValuePosition(tree_parent_page, leaf_id)
      prev_sibling == pos # 0
      sibling_pos == IF pos = 0 THEN pos + 1 ELSE pos - 1
      sibling_id == ValueAt(tree_parent_page, sibling_pos)
      sibling_page == t.pages[sibling_id]
  IN IF IsRootPage(tree_leaf_page)
     THEN IF GetSize(tree_leaf_page) = 0
          THEN UpdateRootPageId(AddIntoDeletedPageSet(t, leaf_id))
          ELSE t
     ELSE IF GetSize(tree_leaf_page) >= GetMinSize(tree_leaf_page) THEN t
     ELSE IF ~Mapped(t, parent_id) THEN TreeUndefined(t)
     ELSE IF ~BUSTUB_ASSERT(GetSize(tree_parent_page) > 1) THEN TreeAborted(t)
     ELSE IF pos = GetSize(tree_parent_page) THEN TreeUndefined(t)
     ELSE IF ~Mapped(t, sibling_id) THEN TreeUndefined(t)
     ELSE IF GetSize(sibling_page) > GetMinSize(sibling_page)
     THEN IF prev_sibling
          THEN IF LeafMoveRearOutOfBounds(sibling_page, tree_leaf_page) THEN TreeUndefined(t)
               ELSE LET moved == LeafMoveRearToFrontOf(sibling_page, tree_leaf_page)
                    IN [t EXCEPT !.pages[sibling_id] = moved[1],
                                 !.pages[leaf_id] = moved[2],
                                 !.pages[parent_id] = SetKeyAt(@, pos, KeyAt(moved[2], 0))]
          ELSE LET moved == LeafMoveFrontToRearOf(sibling_page, tree_leaf_page)
               IN [t EXCEPT !.pages[sibling_id] = moved[1],
                            !.pages[leaf_id] = moved[2],
                            !.pages[parent_id] = SetKeyAt(@, sibling_pos, KeyAt(moved[1], 0))]
     ELSE LET moved == IF prev_sibling
                       THEN LeafMoveAllTo(tree_leaf_page, sibling_page)
                       ELSE LeafMoveAllTo(sibling_page, tree_leaf_page)
              from_id == IF prev_sibling THEN leaf_id ELSE sibling_id
              to_id == IF prev_sibling THEN sibling_id ELSE leaf_id
              t1 == AddIntoDeletedPageSet(
                      [t EXCEPT !.pages[from_id] = moved[1],
                                !.pages[to_id] = moved[2],
                                !.pages[parent_id] =
                                   InternalRemove(@, IF prev_sibling THEN pos ELSE sibling_pos)],
                      from_id)
          IN ReBalanceInternal(t1, parent_id)

\* buffer_pool_manager_->DeletePage(id) for every id of the deleted page set
DeletePages(t) ==
  [t EXCEPT !.pages = [id \in TreePageIds |-> IF id \in t.deleted THEN NoTreePage ELSE @[id]],
            !.deleted = {}]

TreeRemove(t, key) ==
  LET leaf_id == FindLeaf(t, t.root_page_id, key)
      t1 == ReBalanceAfterDeletion([t EXCEPT !.pages[leaf_id] = LeafRemove(@, key)], leaf_id)
  IN IF IsEmpty(t) THEN t
     ELSE IF leaf_id = Unmapped THEN TreeUndefined(t)
     ELSE IF ~LeafRemoves(t.pages[leaf_id], key) THEN t
     ELSE IF t1.status # "ok" THEN t1
     ELSE DeletePages(t1)

\* ---- the buffer pool calls of the tree's operations, in the order the code
\* makes them: <<"Fetch", id>>, <<"New", id>>, <<"Unpin", id>>, <<"Delete", id>>.
\* The calls are those of an operation that completes; on a path that ends in
\* a failed assertion or in undefined behaviour they stop where the path does.
HEADER_PAGE_ID == 0

FetchPageCall(id) == <<<<"Fetch", id>>>>
NewPageCall(id) == <<<<"New", id>>>>
UnpinPageCall(id) == <<<<"Unpin", id>>>>
DeletePageCall(id) == <<<<"Delete", id>>>>

UpdateRootPageIdFetchOnly == FetchPageCall(HEADER_PAGE_ID)
UpdateRootPageIdCalls == FetchPageCall(HEADER_PAGE_ID) \o UnpinPageCall(HEADER_PAGE_ID)

\* the loop that walks from page_id, which is fetched, down to the leaf for
\* key: the child is fetched before the page above it is unpinned
RECURSIVE DescentCalls(_, _, _)
DescentCalls(t, page_id, key) ==
  IF ~Mapped(t, page_id) \/ IsLeafPage(t.pages[page_id]) THEN <<>>
  ELSE LET tree_child_page_id == InternalSearch(t.pages[page_id], key)
       IN FetchPageCall(tree_child_page_id) \o UnpinPageCall(page_id)
            \o DescentCalls(t, tree_child_page_id, key)

FindLeafCalls(t, key) ==
  FetchPageCall(t.root_page_id) \o DescentCalls(t, t.root_page_id, key)

GetValueCalls(t, key) ==
  FindLeafCalls(t, key) \o UnpinPageCall(FindLeaf(t, t.root_page_id, key))

StartNewTreeCalls(t) ==
  NewPageCall(t.next_page_id) \o UnpinPageCall(t.next_page_id) \o UpdateRootPageIdCalls

\* the loops that fetch the children of slots from .. to - 1 one after the
\* other, set their parent and unpin them
RECURSIVE ChildCalls(_, _, _)
ChildCalls(p, from, to) ==
  IF from >= to THEN <<>>
  ELSE FetchPageCall(ValueAt(p, from)) \o UnpinPageCall(ValueAt(p, from))
         \o ChildCalls(p, from + 1, to)

RECURSIVE InsertRisenKeyToParentCalls(_, _, _, _)
InsertRisenKeyToParentCalls(t, risen_key, origin_id, split_id) ==
  LET page_origin == t.pages[origin_id]
      parent_id == page_origin.parent_page_id
      new_page_id == t.next_page_id
      split == InternalSplitTo(t.pages[parent_id], risen_key, split_id)
      t1 == StorePage([t EXCEPT !.pages[parent_id] = split[1]], new_page_id, split[2])
      t2 == SetParents(t1, Children(split[2], 0, GetSize(split[2])), new_page_id)
  IN IF IsRootPage(page_origin)
     THEN NewPageCall(new_page_id) \o UpdateRootPageIdCalls \o UnpinPageCall(new_page_id)
     ELSE IF ~Mapped(t, parent_id) THEN FetchPageCall(parent_id)
     ELSE IF GetSize(t.pages[parent_id]) < internal_max_size
     THEN FetchPageCall(parent_id) \o UnpinPageCall(parent_id)
     ELSE FetchPageCall(parent_id) \o NewPageCall(new_page_id)
            \o ChildCalls(split[2], 0, GetSize(split[2]))
            \o (IF t2.status # "ok" THEN <<>>
                ELSE InsertRisenKeyToParentCalls(t2, KeyAt(split[2], 0), parent_id, new_page_id)
                       \o UnpinPageCall(parent_id) \o UnpinPageCall(new_page_id))

InsertIntoLeafCalls(t, key, value) ==
  LET leaf_id == FindLeaf(t, t.root_page_id, key)
      leaf_page == t.pages[leaf_id]
      inserted == LeafInsert(leaf_page, key, value)
      new_page_id == t.next_page_id
      split == LeafSplitTo(inserted)
      t1 == StorePage([t EXCEPT !.pages[leaf_id] = [split[1] EXCEPT !.next_page_id = new_page_id]],
                      new_page_id, [split[2] EXCEPT !.next_page_id = inserted.next_page_id])
  IN IF leaf_id = Unmapped THEN FindLeafCalls(t, key)
     ELSE IF GetSize(inserted) = GetSize(leaf_page) \/ GetSize(inserted) < leaf_max_size
     THEN FindLeafCalls(t, key) \o UnpinPageCall(leaf_id)
     ELSE FindLeafCalls(t, key) \o NewPageCall(new_page_id)
            \o InsertRisenKeyToParentCalls(t1, KeyAt(split[2], 0), leaf_id, new_page_id)
            \o UnpinPageCall(new_page_id) \o UnpinPageCall(leaf_id)

InsertCalls(t, key, value) ==
  IF IsEmpty(t) THEN StartNewTreeCalls(t) ELSE InsertIntoLeafCalls(t, key, value)

RECURSIVE ReBalanceInternalCalls(_, _)
ReBalanceInternalCalls(t, internal_id) ==
  LET internal_page == t.pages[internal_id]
      parent_id == internal_page.parent_page_id
      tree_parent_page == t.pages[parent_id]
      pos == ValuePosition(tree_parent_page, internal_id)
      prev_sibling == pos # 0
      sibling_pos == IF pos = 0 THEN pos + 1 ELSE pos - 1
      sibling_id == ValueAt(tree_parent_page, sibling_pos)
      sibling_page == t.pages[sibling_id]
      old_size == IF prev_sibling THEN GetSize(sibling_page) ELSE GetSize(internal_page)
      moved == IF prev_sibling
               THEN InternalMoveAllTo(internal_page, sibling_page, KeyAt(tree_parent_page, pos))
               ELSE InternalMoveAllTo(sibling_page, internal_page,
                                      KeyAt(tree_parent_page, sibling_pos))
      from_id == IF prev_sibling THEN internal_id ELSE sibling_id
      to_id == IF prev_sibling THEN sibling_id ELSE internal_id
      t1 == SetParents([t EXCEPT !.pages[from_id] = moved[1], !.pages[to_id] = moved[2]],
                       Children(moved[2], old_size, GetSize(moved[2])), to_id)
      t2 == AddIntoDeletedPageSet(
              [t1 EXCEPT !.pages[parent_id] =
                           InternalRemove(@, IF prev_sibling THEN pos ELSE sibling_pos)],
              from_id)
  IN IF IsRootPage(internal_page) /\ GetSize(internal_page) = 1
     THEN FetchPageCall(ValueAt(internal_page, 0)) \o UpdateRootPageIdCalls
            \o UnpinPageCall(ValueAt(internal_page, 0))
     ELSE IF GetSize(internal_page) >= GetMinSize(internal_page) THEN <<>>
     ELSE IF \/ ~Mapped(t, parent_id) \/ GetSize(tree_parent_page) <= 1
             \/ pos = GetSize(tree_parent_page)
     THEN FetchPageCall(parent_id)
     ELSE IF ~Mapped(t, sibling_id) THEN FetchPageCall(parent_id) \o FetchPageCall(sibling_id)
     ELSE FetchPageCall(parent_id) \o FetchPageCall(sibling_id)
            \o (IF GetSize(sibling_page) > GetMinSize(sibling_page)
                THEN IF prev_sibling
                     THEN FetchPageCall(ValueAt(sibling_page, GetSize(sibling_page) - 1))
                            \o UnpinPageCall(ValueAt(sibling_page, GetSize(sibling_page) - 1))
                     ELSE FetchPageCall(ValueAt(sibling_page, 0))
                            \o UnpinPageCall(ValueAt(sibling_page, 0))
                ELSE ChildCalls(moved[2], old_size, GetSize(moved[2]))
                       \o (IF t1.status # "ok" THEN <<>> ELSE ReBalanceInternalCalls(t2, parent_id)))
            \o UnpinPageCall(parent_id) \o UnpinPageCall(sibling_id)

ReBalanceAfterDeletionCalls(t, leaf_id) ==
  LET tree_leaf_page == t.pages[leaf_id]
      parent_id == tree_leaf_page.parent_page_id
      tree_parent_page == t.pages[parent_id]
      pos == ValuePosition(tree_parent_page, leaf_id)
      prev_sibling == pos # 0
      sibling_pos == IF pos = 0 THEN pos + 1 ELSE pos - 1
      sibling_id == ValueAt(tree_parent_page, sibling_pos)
      sibling_page == t.pages[sibling_id]
      moved == IF prev_sibling
               THEN LeafMoveAllTo(tree_leaf_page, sibling_page)
               ELSE LeafMoveAllTo(sibling_page, tree_leaf_page)
      from_id == IF prev_sibling THEN leaf_id ELSE sibling_id
      to_id == IF prev_sibling THEN sibling_id ELSE leaf_id
      t1 == AddIntoDeletedPageSet(
              [t EXCEPT !.pages[from_id] = moved[1],
                        !.pages[to_id] = moved[2],
                        !.pages[parent_id] =
                           InternalRemove(@, IF prev_sibling THEN pos ELSE sibling_pos)],
              from_id)
  IN IF IsRootPage(tree_leaf_page)
     THEN IF GetSize(tree_leaf_page) = 0 THEN UpdateRootPageIdCalls ELSE <<>>
     ELSE IF GetSize(tree_leaf_page) >= GetMinSize(tree_leaf_page) THEN <<>>
     ELSE IF \/ ~Mapped(t, parent_id) \/ GetSize(tree_parent_page) <= 1
             \/ pos = GetSize(tree_parent_page)
     THEN FetchPageCall(parent_id)
     ELSE IF ~Mapped(t, sibling_id) THEN FetchPageCall(parent_id) \o FetchPageCall(sibling_id)
     ELSE FetchPageCall(parent_id) \o FetchPageCall(sibling_id)
            \o (IF GetSize(sibling_page) > GetMinSize(sibling_page) THEN <<>>
                ELSE ReBalanceInternalCalls(t1, parent_id))
            \o UnpinPageCall(parent_id) \o UnpinPageCall(sibling_id)

\* DeletePage for every id of the deleted page set; the set is unordered, and
\* the calls are listed by ascending id
RECURSIVE DeletePagesCalls(_)
DeletePagesCalls(ids) ==
  IF ids = {} THEN <<>>
  ELSE LET id == CHOOSE i \in ids : \A j \in ids : i <= j
       IN DeletePageCall(id) \o DeletePagesCalls(ids \ {id})

RemoveCalls(t, key) ==
  LET leaf_id == FindLeaf(t, t.root_page_id, key)
      removed == [t EXCEPT !.pages[leaf_id] = LeafRemove(@, key)]
      t1 == ReBalanceAfterDeletion(removed, leaf_id)
  IN IF IsEmpty(t) THEN <<>>
     ELSE IF leaf_id = Unmapped THEN FindLeafCalls(t, key)
     ELSE IF ~LeafRemoves(t.pages[leaf_id], key)
     THEN FindLeafCalls(t, key) \o UnpinPageCall(leaf_id)
     ELSE FindLeafCalls(t, key) \o ReBalanceAfterDeletionCalls(removed, leaf_id)
            \o (IF t1.status # "ok" THEN <<>>
                ELSE UnpinPageCall(leaf_id) \o DeletePagesCalls(t1.deleted))

\* the pin count of page id after the first n of the calls, from a pin count of 0
PinCount(calls, id, n) ==
  Cardinality({i \in 1 .. n : calls[i] \in {<<"Fetch", id>>, <<"New", id>>}})
    - Cardinality({i \in 1 .. n : calls[i] = <<"Unpin", id>>})

\* ---- the index iterator
\* iterator = [curr_page_id, curr_idx]: the leaf curr_leaf_page_ points at (None
\* when it points at no leaf of the tree) and curr_idx_
\* IndexIterator(): no member is given a value by the constructor, so the
\* pointers name no leaf and curr_idx_ is whatever the build leaves there
DefaultIterators == {[curr_page_id |-> None, curr_idx |-> i] : i \in 0 .. MaxLeafSize}

\* the iterators Begin(), Begin(key) and End() can return
Begin(t) == DefaultIterators
BeginKey(t, key) == DefaultIterators
End(t) == DefaultIterators

IsEnd(t, it) ==
  /\ t.pages[it.curr_page_id].next_page_id = INVALID_PAGE_ID
  /\ it.curr_idx = GetSize(t.pages[it.curr_page_id])

\* operator++ on an iterator that is not at the end
Advance(t, it) ==
  IF /\ t.pages[it.curr_page_id].next_page_id # INVALID_PAGE_ID
     /\ it.curr_idx = GetSize(t.pages[it.curr_page_id]) - 1
  THEN [curr_page_id |-> t.pages[it.curr_page_id].next_page_id, curr_idx |-> 0]
  ELSE [it EXCEPT !.curr_idx = @ + 1]

\* the keys that *it yields while the iterator is advanced until IsEnd(), at
\* most fuel of them; Unmapped marks an iterator on no leaf of the tree or on a
\* slot beyond the leaf's pairs
RECURSIVE IteratorKeys(_, _, _)
IteratorKeys(t, it, fuel) ==
  IF ~Mapped(t, it.curr_page_id) \/ fuel = 0 THEN <<Unmapped>>
  ELSE IF IsEnd(t, it) THEN <<>>
  ELSE IF it.curr_idx >= GetSize(t.pages[it.curr_page_id]) THEN <<Unmapped>>
  ELSE <<KeyAt(t.pages[it.curr_page_id], it.curr_idx)>>
         \o IteratorKeys(t, Advance(t, it), fuel - 1)

\* ---- the tree's operations as steps
BTInit ==
  /\ tree = NewTree
  /\ bt_shadow = [k \in TreeKeys |-> {}]

NoScript == [calls |-> <<>>, pc |-> 1]

BTIdle == BTInit /\ leaf_max_size = 3 /\ internal_max_size = 3 /\ bt_script = NoScript

BTInsert(key, value) ==
  /\ tree.status = "ok"
  /\ \E t \in {TreeInsert(tree, key, value)} :
       /\ t.next_page_id <= MaxTreePages + 1
       /\ tree' = t
       /\ bt_shadow' = IF t.status = "ok" /\ InsertResult(tree, key, value)
                       THEN [bt_shadow EXCEPT ![key] = @ \cup {value}]
                       ELSE bt_shadow
  /\ UNCHANGED <<leaf_max_size, internal_max_size>>

BTRemove(key) ==
  /\ tree.status = "ok"
  /\ tree' = TreeRemove(tree, key)
  /\ bt_shadow' = IF tree'.status = "ok" THEN [bt_shadow EXCEPT ![key] = {}] ELSE bt_shadow
  /\ UNCHANGED <<leaf_max_size, internal_max_size>>

BTGetValue(key) ==
  /\ tree.status = "ok"
  /\ tree' = IF ~BUSTUB_ASSERT(tree.root_page_id # INVALID_PAGE_ID) THEN TreeAborted(tree)
             ELSE IF GetValue(tree, key) = Unmapped THEN TreeUndefined(tree)
             ELSE tree
  /\ UNCHANGED <<leaf_max_size, internal_max_size, bt_shadow>>

\* the next call of the scenario
BTPlayInsert ==
  /\ bt_script.pc <= Len(bt_script.calls)
  /\ bt_script.calls[bt_script.pc][1] = "Insert"
  /\ BTInsert(bt_script.calls[bt_script.pc][2], 1)
  /\ bt_script' = [bt_script EXCEPT !.pc = @ + 1]

BTPlayRemove ==
  /\ bt_script.pc <= Len(bt_script.calls)
  /\ bt_script.calls[bt_script.pc][1] = "Remove"
  /\ BTRemove(bt_script.calls[bt_script.pc][2])
  /\ bt_script' = [bt_script EXCEPT !.pc = @ + 1]

\* ------------------------------------------------------------ specifications
\* Spec: every pool operation, page bytes included, in short runs
Init == HTInit /\ bucket_size = 1 /\ BPMInit /\ pt_bucket_size \in 1 .. MaxBucketSize /\ LRUIdle /\ BTIdle

Next ==
  \/ NewPgImp /\ Capped(MaxTime, MaxPin) /\ UNCHANGED ccvars
  \/ \E p \in Allocated : FetchPgImp(p) /\ Capped(MaxTime, MaxPin) /\ UNCHANGED ccvars
  \/ \E p \in Allocated, d \in BOOLEAN : UnpinPgImp(p, d) /\ UNCHANGED ccvars
  \/ \E p \in Allocated : FlushPgImp(p) /\ UNCHANGED ccvars
  \/ FlushAllPgsImp /\ UNCHANGED ccvars
  \/ \E p \in Allocated : DeletePgImp(p) /\ UNCHANGED ccvars
  \/ \E f \in Frames, d \in Datas : WriteData(f, d) /\ UNCHANGED ccvars

Spec == Init /\ [][Next]_vars

\* SpecLong: longer runs of the pool in which no holder writes a page, unpins
\* it as dirty or flushes it, and no page is pinned twice
InitLong == HTInit /\ bucket_size = 1 /\ BPMInit /\ pt_bucket_size = 1 /\ LRUIdle /\ BTIdle

NextLong ==
  \/ NewPgImp /\ Capped(MaxLongTime, 1) /\ UNCHANGED ccvars
  \/ \E p \in Allocated : FetchPgImp(p) /\ Capped(MaxLongTime, 1) /\ UNCHANGED ccvars
  \/ \E p \in Allocated : UnpinPgImp(p, FALSE) /\ UNCHANGED ccvars
  \/ \E p \in Allocated : FlushPgImp(p) /\ UNCHANGED ccvars
  \/ FlushAllPgsImp /\ UNCHANGED ccvars
  \/ \E p \in Allocated : DeletePgImp(p) /\ UNCHANGED ccvars

SpecLong == InitLong /\ [][NextLong]_vars

\* SpecConc: the pool of SpecLong called by NumThreads threads; a call takes
\* latch_ in its first statement and gives it back when it returns
NextConc ==
  \/ \E t \in Threads : Lock(t)
  \/ \E t \in Threads : Locked(t) /\ NewPgImp /\ Capped(MaxLongTime, 1) /\ Obtains(next_page_id, NewPgFrame)
  \/ \E t \in Threads, p \in Allocated :
        Locked(t) /\ FetchPgImp(p) /\ Capped(MaxLongTime, 1) /\ Obtains(p, FetchPgFrame(p))
  \/ \E t \in Threads, p \in Allocated : Locked(t) /\ UnpinPgImp(p, FALSE) /\ Releases(p, UnpinPgResult(p))
  \/ \E t \in Threads, p \in Allocated : Locked(t) /\ FlushPgImp(p) /\ UNCHANGED <<pinned, obtained>>
  \/ \E t \in Threads : Locked(t) /\ FlushAllPgsImp /\ UNCHANGED <<pinned, obtained>>
  \/ \E t \in Threads, p \in Allocated : Locked(t) /\ DeletePgImp(p) /\ UNCHANGED <<pinned, obtained>>

SpecConc == InitLong /\ [][NextConc]_vars

\* SpecLatch: NumThreads threads calling the pool, a hash table and a
\* replacer, each call reduced to its lock and unlock steps
NextLatch ==
  \/ \E t \in Threads : LatchCall(t)
  \/ \E t \in Threads : LatchLock(t)
  \/ \E t \in Threads : LatchUnlock(t)

SpecLatch == InitLong /\ [][NextLatch]_vars

\* SpecHT: the hash table alone
InitHT == HTInit /\ BPMInit /\ pt_bucket_size = 1 /\ LRUIdle /\ BTIdle

NextHT ==
  \/ \E k \in Keys, v \in Vals : HTInsert(k, v) /\ UNCHANGED <<ht_script, bpmvars, lruvars, btvars>>
  \/ \E k \in Keys : HTRemove(k) /\ UNCHANGED <<ht_script, bpmvars, lruvars, btvars>>

SpecHT == InitHT /\ [][NextHT]_vars

\* SpecHTSteps: the hash table alone, inserting the keys of a scenario one
\* after the other, every Insert one loop iteration at a time
Script27 == <<0, 1, 2, 3, 4>>

\* the scenario, also with one of its keys in the place of another
HTScripts ==
  {[Script27 EXCEPT ![i] = Script27[j]] : i \in 1 .. Len(Script27), j \in 1 .. Len(Script27)}

InitHTSteps ==
  /\ bucket_size \in 1 .. MaxBucketSize
  /\ ht = NewTable
  /\ shadow = [k \in Keys |-> None]
  /\ \E calls \in HTScripts : ht_script = [calls |-> calls, pc |-> 1, idx |-> None]
  /\ BPMInit /\ pt_bucket_size = 1 /\ LRUIdle /\ BTIdle

NextHTSteps ==
  \/ HTInsertBegin /\ UNCHANGED <<bpmvars, lruvars, btvars>>
  \/ HTInsertSplit /\ UNCHANGED <<bpmvars, lruvars, btvars>>
  \/ HTInsertStore /\ UNCHANGED <<bpmvars, lruvars, btvars>>

SpecHTSteps == InitHTSteps /\ [][NextHTSteps]_vars

\* the calling thread runs on: a step of Insert that can be taken is taken
LiveSpecHTSteps == SpecHTSteps /\ WF_vars(NextHTSteps)

\* SpecLRU: the replacer alone, any calls
Script16 == <<1, 2, 3, 4, 1, 2, 3, 4, 1, 2, 3, 4, 1>>
Script17 == <<1, 1, 2, 3>>

InitLRU ==
  /\ HTInit /\ bucket_size = 1 /\ BPMInit /\ pt_bucket_size = 1 /\ BTIdle
  /\ LRUInit
  /\ lru_size \in 1 .. MaxReplacerSize
  /\ lru_k \in 2 .. MaxReplacerK
  /\ script = <<>>

NextLRU ==
  \/ \E id \in 0 .. (lru_size + 1) :
        /\ lru.current_timestamp < MaxAccesses
        /\ LRURecordAccess(id) /\ UNCHANGED <<script, htvars, bpmvars, btvars>>
  \/ \E id \in 0 .. (lru_size + 1), b \in BOOLEAN : LRUSetEvictable(id, b) /\ UNCHANGED <<htvars, bpmvars, btvars>>
  \/ LRUEvict /\ UNCHANGED <<htvars, bpmvars, btvars>>
  \/ \E id \in 0 .. (lru_size + 1) : LRURemove(id) /\ UNCHANGED <<htvars, bpmvars, btvars>>

SpecLRU == InitLRU /\ [][NextLRU]_vars

\* SpecLRUScript: the replacer alone, running one of the two scenarios of the
\* specification; frames are evicted once the scenario's accesses are made
InitLRUScript ==
  /\ HTInit /\ bucket_size = 1 /\ BPMInit /\ pt_bucket_size = 1 /\ BTIdle
  /\ LRUInit
  /\ lru_k = 2
  /\ \/ lru_size = 4 /\ script = Script16
     \/ lru_size = 3 /\ script = Script17

NextLRUScript ==
  \/ LRUPlay /\ UNCHANGED <<htvars, bpmvars, btvars>>
  \/ \E id \in 1 .. lru_size, b \in BOOLEAN : LRUSetEvictable(id, b) /\ UNCHANGED <<htvars, bpmvars, btvars>>
  \/ script = <<>> /\ LRUEvict /\ UNCHANGED <<htvars, bpmvars, btvars>>

SpecLRUScript == InitLRUScript /\ [][NextLRUScript]_vars

\* SpecLRUAnyK: the replacer alone, any calls, k_ >= 1
InitLRUAnyK ==
  /\ HTInit /\ bucket_size = 1 /\ BPMInit /\ pt_bucket_size = 1 /\ BTIdle
  /\ LRUInit
  /\ lru_size \in 1 .. MaxReplacerSize
  /\ lru_k \in 1 .. MaxReplacerK
  /\ script = <<>>

NextLRUAnyK ==
  \/ \E id \in 0 .. (lru_size + 1) :
        /\ lru.current_timestamp < MaxAccesses
        /\ LRURecordAccessAnyK(id) /\ UNCHANGED <<script, htvars, bpmvars, btvars>>
  \/ \E id \in 0 .. (lru_size + 1), b \in BOOLEAN : LRUSetEvictable(id, b) /\ UNCHANGED <<htvars, bpmvars, btvars>>
  \/ LRUEvict /\ UNCHANGED <<htvars, bpmvars, btvars>>
  \/ \E id \in 0 .. (lru_size + 1) : LRURemoveAnyK(id) /\ UNCHANGED <<htvars, bpmvars, btvars>>

SpecLRUAnyK == InitLRUAnyK /\ [][NextLRUAnyK]_vars

\* SpecBT: the B+ tree alone, any calls
InitBT ==
  /\ HTInit /\ bucket_size = 1 /\ BPMInit /\ pt_bucket_size = 1 /\ LRUIdle
  /\ BTInit
  /\ leaf_max_size \in 3 .. MaxLeafSize
  /\ internal_max_size \in 3 .. MaxInternalSize
  /\ bt_script = NoScript

NextBT ==
  \/ \E k \in TreeKeys, v \in TreeVals : BTInsert(k, v) /\ UNCHANGED <<bt_script, htvars, bpmvars, lruvars>>
  \/ \E k \in TreeKeys : BTRemove(k) /\ UNCHANGED <<bt_script, htvars, bpmvars, lruvars>>
  \/ \E k \in TreeKeys : BTGetValue(k) /\ UNCHANGED <<bt_script, htvars, bpmvars, lruvars>>

SpecBT == InitBT /\ [][NextBT]_vars

\* SpecBTWide: the B+ tree alone, any calls, with leaf_max_size = 3 and internal
\* pages wide enough for a minimum size above two
InitBTWide ==
  /\ HTInit /\ bucket_size = 1 /\ BPMInit /\ pt_bucket_size = 1 /\ LRUIdle
  /\ BTInit
  /\ leaf_max_size = 3
  /\ internal_max_size \in 3 .. MaxWideInternalSize
  /\ bt_script = NoScript

SpecBTWide == InitBTWide /\ [][NextBT]_vars

\* SpecBTScript: the B+ tree alone with leaf_max_size = internal_max_size = 3,
\* running a scenario of five inserts followed by two removes
Script24 == <<<<"Insert", 1>>, <<"Insert", 2>>, <<"Insert", 3>>, <<"Insert", 4>>,
              <<"Insert", 5>>, <<"Remove", 4>>, <<"Remove", 5>>>>

ScriptKeys == {Script24[i][2] : i \in 1 .. Len(Script24)}

\* the scenario with its inserts in any order and any two keys removed
BTScripts ==
  {[i \in 1 .. Len(Script24) |->
      IF Script24[i][1] = "Insert" THEN <<"Insert", ins[i]>>
      ELSE <<"Remove", rem[i - Cardinality(ScriptKeys)]>>] :
     ins \in {f \in [1 .. Cardinality(ScriptKeys) -> ScriptKeys] :
               \A i, j \in DOMAIN f : i # j => f[i] # f[j]},
     rem \in {r \in ScriptKeys \X ScriptKeys : r[1] # r[2]}}

InitBTScript ==
  /\ HTInit /\ bucket_size = 1 /\ BPMInit /\ pt_bucket_size = 1 /\ LRUIdle
  /\ BTInit
  /\ leaf_max_size = 3
  /\ internal_max_size = 3
  /\ \E calls \in BTScripts : bt_script = [calls |-> calls, pc |-> 1]

NextBTScript ==
  \/ BTPlayInsert /\ UNCHANGED <<htvars, bpmvars, lruvars>>
  \/ BTPlayRemove /\ UNCHANGED <<htvars, bpmvars, lruvars>>

SpecBTScript == InitBTScript /\ [][NextBTScript]_vars

\* ------------------------------------------------------------------- claims
\* a page is resident when some frame of the pool holds it
Resident(p) == \E f \in Frames : pages[f].page_id = p

FrameOf(p) == CHOOSE f \in Frames : pages[f].page_id = p

IsEvictable(r, f) == r.frames[f].tracked /\ r.frames[f].evictable

\* C1: after any sequence of Insert and Remove calls, Find(k) returns the value
\* of the latest Insert(k, v) not followed by Remove(k), and not-found for every
\* key whose latest operation was Remove (or that was never inserted).
C1_RoundTrip == ~ht.diverged => \A k \in Keys : Find(ht, k) = shadow[k]

\* C2: for every directory slot i the bucket it addresses has local depth
\* d_b <= global depth, and a slot j addresses that same bucket iff the low d_b
\* bits of j equal the low d_b bits of i.
C2_DirectoryInvariant ==
  ~ht.diverged =>
    \A i \in 0 .. (Len(ht.dir) - 1) :
      LET d == BucketAt(ht, i).depth
      IN /\ d <= ht.global_depth
         /\ \A j \in 0 .. (Len(ht.dir) - 1) :
              (ht.dir[j + 1] = ht.dir[i + 1]) <=> (j % Pow2(d) = i % Pow2(d))

\* C3: every pin count is >= 0, a frame holding a page is evictable in the
\* replacer iff its pin count is 0, and the frame that new_page or a fetch_page
\* miss takes for the incoming page has pin count 0.
C3_PinEvictable ==
  /\ \A f \in Frames :
       /\ pages[f].pin_count >= 0
       /\ pages[f].page_id # INVALID_PAGE_ID =>
            (IsEvictable(replacer, f) <=> pages[f].pin_count = 0)
  /\ NewPgFrame # None => pages[NewPgFrame].pin_count = 0
  /\ \A p \in Allocated :
       (Find(page_table, p) = None /\ FetchPgFrame(p) # None)
          => pages[FetchPgFrame(p)].pin_count = 0

\* C4: a successful unpin_page(p, is_dirty) leaves the dirty bit of p's frame
\* equal to (old dirty bit OR is_dirty).
C4_UnpinOrsDirty ==
  [][\A p \in Allocated, d \in BOOLEAN :
       (UnpinPgImp(p, d) /\ UnpinPgResult(p))
         => pages'[Find(page_table, p)].is_dirty
              = (pages[Find(page_table, p)].is_dirty \/ d)]_vars

\* C5: the bytes a holder unpinned as dirty are the bytes of the page from
\* then on, in its frame while it is resident and on disk while it is not,
\* until the page is written again or deleted: fetch_page returns them.
C5_NoModifiedPageLost ==
  \A p \in PageIds :
    committed[p] # None =>
      IF Resident(p) THEN pages[FrameOf(p)].data = committed[p]
      ELSE disk[p] = committed[p]

\* C6: the frame new_page or a fetch_page miss installs a page in has pin
\* count 1 and dirty bit false afterwards, and the id new_page returns was
\* never returned before.
C6_InstalledPageFresh ==
  [][/\ (NewPgImp /\ NewPgFrame # None) =>
          /\ pages'[NewPgFrame].pin_count = 1
          /\ ~pages'[NewPgFrame].is_dirty
          /\ pages'[NewPgFrame].page_id \notin returned
     /\ \A p \in Allocated :
          (FetchPgImp(p) /\ Find(page_table, p) = None /\ FetchPgFrame(p) # None) =>
             /\ pages'[FetchPgFrame(p)].pin_count = 1
             /\ ~pages'[FetchPgFrame(p)].is_dirty]_vars

\* no free frame and every frame pinned
Exhausted == free_list = <<>> /\ \A f \in Frames : pages[f].pin_count > 0

\* C7: with the free list empty and every frame pinned, new_page and
\* fetch_page of a page that is not resident return none and change nothing.
C7_PoolExhausted ==
  [][Exhausted =>
       /\ NewPgFrame = None
       /\ NewPgImp => UNCHANGED bpmvars
       /\ \A p \in Allocated :
            ~Resident(p) =>
              /\ FetchPgFrame(p) = None
              /\ FetchPgImp(p) => UNCHANGED bpmvars]_vars

\* C8: unpin_page returns false when the page is not resident or its pin
\* count is already 0, and then no pin count, dirty bit or evictability changes.
C8_UnpinFailsCleanly ==
  [][\A p \in Allocated :
       (~Resident(p) \/ pages[FrameOf(p)].pin_count = 0) =>
          /\ ~UnpinPgResult(p)
          /\ \A d \in BOOLEAN :
               UnpinPgImp(p, d) => (pages' = pages /\ replacer' = replacer)]_vars

\* C9: delete_page(p) returns true and changes nothing when p is not resident,
\* returns false and changes nothing when p is resident and pinned, and
\* otherwise returns true with p out of the page table and its frame on the
\* free list, unpinned, clean and unknown to the replacer.
C9_DeletePage ==
  [][\A p \in Allocated :
       IF ~Resident(p)
       THEN DeletePgResult(p) /\ (DeletePgImp(p) => UNCHANGED bpmvars)
       ELSE IF pages[FrameOf(p)].pin_count > 0
            THEN ~DeletePgResult(p) /\ (DeletePgImp(p) => UNCHANGED bpmvars)
            ELSE /\ DeletePgResult(p)
                 /\ DeletePgImp(p) =>
                      /\ Find(page_table', p) = None
                      /\ \E j \in 1 .. Len(free_list') : free_list'[j] = FrameOf(p)
                      /\ pages'[FrameOf(p)].pin_count = 0
                      /\ ~pages'[FrameOf(p)].is_dirty
                      /\ ~replacer'.frames[FrameOf(p)].tracked]_vars

\* C10: flush_page(p) returns false when p is not resident; on a resident
\* page it returns true, puts the page's bytes on disk, clears the dirty bit and
\* leaves pin counts and the replacer alone; after flush_all the disk image of
\* every resident page equals its bytes in memory.
C10_Flush ==
  [][/\ \A p \in Allocated :
          IF ~Resident(p) THEN ~FlushPgResult(p)
          ELSE /\ FlushPgResult(p)
               /\ FlushPgImp(p) =>
                    /\ disk'[p] = pages[FrameOf(p)].data
                    /\ ~pages'[FrameOf(p)].is_dirty
                    /\ pages'[FrameOf(p)].pin_count = pages[FrameOf(p)].pin_count
                    /\ replacer' = replacer
     /\ FlushAllPgsImp =>
          \A p \in Allocated : Resident(p) => disk'[p] = pages'[FrameOf(p)].data]_vars

\* ------------------------------------------------------- claims: replacer
\* the tracked frames evict may return
Eligible(r) == {f \in FrameIds : IsEvictable(r, f)}

\* number of recorded accesses of frame f
Count(log, f) == Cardinality({j \in 1 .. Len(log) : log[j] = f})

\* time of the first recorded access of frame f
FirstAccess(log, f) == CHOOSE j \in 1 .. Len(log) : log[j] = f /\ \A h \in 1 .. (j - 1) : log[h] # f

\* time of the k-th most recent recorded access of frame f
KthRecent(log, f, k) ==
  CHOOSE j \in 1 .. Len(log) : log[j] = f /\ Cardinality({h \in j .. Len(log) : log[h] = f}) = k

InList(list, id) == \E j \in 1 .. Len(list) : list[j] = id

C15_RejectsOutOfRange ==
  [][\A id \in FrameIds :
       (id >= lru_size /\ LRURecordAccess(id)) =>
          (lru_aborted' /\ ~lru'.frames[id].tracked)]_vars

\* the scenario's accesses are made and its frames 1..n are all evictable
ScenarioDone(n) ==
  /\ lru_size = n
  /\ script = <<>>
  /\ \A f \in 1 .. n : IsEvictable(lru, f)

\* C16 (as stated): after accesses 1,2,3,4,1,2,3,4,1,2,3,4,1 with K = 2 and all
\* frames evictable, the first evict yields frame 4.
C16_Scenario == ScenarioDone(4) => Victim(lru) = 4

\* C16 (amended): after those accesses the first evict yields frame 2.
C16_ScenarioAmended == ScenarioDone(4) => Victim(lru) = 2

C16_Witness == ScenarioDone(4) /\ lru.current_timestamp = Len(Script16)

\* C17 (as stated): after accesses 1,1,2,3 with K = 2 and all frames
\* evictable, three evicts yield frame 3, then 2, then 1.
C17_Scenario ==
  ScenarioDone(3) =>
    /\ Victim(lru) = 3
    /\ Victim(Evict(lru)) = 2
    /\ Victim(Evict(Evict(lru))) = 1

\* C17 (amended): three evicts yield frame 2, then 3, then 1.
C17_ScenarioAmended ==
  ScenarioDone(3) =>
    /\ Victim(lru) = 2
    /\ Victim(Evict(lru)) = 3
    /\ Victim(Evict(Evict(lru))) = 1

C17_Witness == ScenarioDone(3) /\ lru.current_timestamp = Len(Script17)

\* ------------------------------------------------------------ claims: B+ tree
\* the leaf reached from page_id through the first child of every internal page
RECURSIVE LeftmostLeaf(_, _)
LeftmostLeaf(t, page_id) ==
  IF ~Mapped(t, page_id) THEN Unmapped
  ELSE IF IsLeafPage(t.pages[page_id]) THEN page_id
  ELSE LeftmostLeaf(t, ValueAt(t.pages[page_id], 0))

\* the keys met from leaf page_id on along next_page_id, at most fuel leaves
\* far; Unmapped marks a link to a page that is not there
RECURSIVE LeafKeys(_, _, _)
LeafKeys(t, page_id, fuel) ==
  IF page_id = INVALID_PAGE_ID THEN <<>>
  ELSE IF ~Mapped(t, page_id) \/ fuel = 0 THEN <<Unmapped>>
  ELSE [i \in 1 .. GetSize(t.pages[page_id]) |-> KeyAt(t.pages[page_id], i - 1)]
         \o LeafKeys(t, t.pages[page_id].next_page_id, fuel - 1)

LeafChain(t) ==
  IF LeftmostLeaf(t, t.root_page_id) = Unmapped THEN <<Unmapped>>
  ELSE LeafKeys(t, LeftmostLeaf(t, t.root_page_id), MaxTreePages)

Stored == {k \in TreeKeys : bt_shadow[k] # {}}

\* C18: after any sequence of Insert and Remove calls, GetValue(k) returns v
\* for every (k, v) whose Insert succeeded and that was not removed afterwards,
\* and returns not-found for every key that was removed or never inserted.
C18_RoundTrip ==
  tree.status = "ok" =>
    \A k \in TreeKeys :
       GetValue(tree, k) # Unmapped =>
         IF bt_shadow[k] = {} THEN GetValue(tree, k) = None
         ELSE GetValue(tree, k) \in bt_shadow[k]

\* C19: Insert of a key already present returns false and leaves the tree
\* unchanged (same keys, same values, same page structure); Insert of a new
\* key returns true.
C19_DuplicateInsert ==
  tree.status = "ok" =>
    \A k \in TreeKeys, v \in TreeVals :
       IsEmpty(tree) \/ FindLeaf(tree, tree.root_page_id, k) # Unmapped =>
         IF k \in Stored
         THEN ~InsertResult(tree, k, v) /\ TreeInsert(tree, k, v) = tree
         ELSE InsertResult(tree, k, v)

\* C20: after any sequence of Insert and Remove calls, walking the leaves from
\* the leftmost leaf through next_page_id visits every key stored in the tree
\* exactly once, in strictly increasing order.
C20_LeafOrder ==
  tree.status = "ok" =>
    \E chain \in {LeafChain(tree)} :
       (\A i \in 1 .. Len(chain) : chain[i] # Unmapped) =>
         /\ \A i \in 1 .. (Len(chain) - 1) : chain[i] < chain[i + 1]
         /\ {chain[i] : i \in 1 .. Len(chain)} = Stored

\* C21: after every completed Insert or Remove, every non-root page (leaf and
\* internal) holds min_size <= size <= max_size - 1 entries, with
\* min_size = ceil(max_size / 2).
C21_PageSizeBounds ==
  tree.status = "ok" =>
    \A id \in TreePageIds :
       Mapped(tree, id) /\ ~IsRootPage(tree.pages[id]) =>
         /\ GetMinSize(tree.pages[id]) <= GetSize(tree.pages[id])
         /\ GetSize(tree.pages[id]) <= tree.pages[id].max_size - 1

\* the keys held by the leaves below page_id, at most fuel levels down
RECURSIVE SubtreeKeys(_, _, _)
SubtreeKeys(t, page_id, fuel) ==
  IF ~Mapped(t, page_id) \/ fuel = 0 THEN {}
  ELSE IF IsLeafPage(t.pages[page_id])
  THEN {KeyAt(t.pages[page_id], i) : i \in 0 .. (GetSize(t.pages[page_id]) - 1)}
  ELSE UNION {SubtreeKeys(t, ValueAt(t.pages[page_id], i), fuel - 1) :
                i \in 0 .. (GetSize(t.pages[page_id]) - 1)}

\* C22: after every completed Insert or Remove, for every internal page and
\* every slot i > 0, all keys in the subtree of child(i-1) are < key(i), all
\* keys in the subtree of child(i) are >= key(i), and the keys in slots
\* 1..size-1 are strictly increasing.
C22_Separators ==
  tree.status = "ok" =>
    \A id \in TreePageIds :
       Mapped(tree, id) /\ ~IsLeafPage(tree.pages[id]) =>
         \A i \in 1 .. (GetSize(tree.pages[id]) - 1) :
            /\ \A k \in SubtreeKeys(tree, ValueAt(tree.pages[id], i - 1), MaxTreePages) :
                  k < KeyAt(tree.pages[id], i)
            /\ \A k \in SubtreeKeys(tree, ValueAt(tree.pages[id], i), MaxTreePages) :
                  k >= KeyAt(tree.pages[id], i)
            /\ i > 1 => KeyAt(tree.pages[id], i - 1) < KeyAt(tree.pages[id], i)

\* C23: removing the last remaining key from a tree whose root is a leaf makes
\* the tree empty: afterwards IsEmpty() is true and the root page id, in memory
\* and in the header page, is INVALID_PAGE_ID.
C23_LastKeyRemoved ==
  /\ tree.status = "ok"
  /\ Mapped(tree, tree.root_page_id)
  /\ IsLeafPage(tree.pages[tree.root_page_id])
  /\ IsRootPage(tree.pages[tree.root_page_id])
  /\ GetSize(tree.pages[tree.root_page_id]) = 1
  => \E after \in {TreeRemove(tree, KeyAt(tree.pages[tree.root_page_id], 0))} :
        /\ IsEmpty(after)
        /\ after.root_page_id = INVALID_PAGE_ID
        /\ after.header = INVALID_PAGE_ID

\* the pair of leaves that Remove(key) coalesces, as they are once key is
\* removed from its leaf and before the right one is moved into the left one;
\* found is FALSE when Remove(key) coalesces no leaves
CoalescedLeaves(t, key) ==
  LET leaf_id == FindLeaf(t, t.root_page_id, key)
      tree_leaf_page == LeafRemove(t.pages[leaf_id], key)
      parent_id == tree_leaf_page.parent_page_id
      tree_parent_page == t.pages[parent_id]
      pos == ValuePosition(tree_parent_page, leaf_id)
      sibling_pos == IF pos = 0 THEN pos + 1 ELSE pos - 1
      sibling_id == ValueAt(tree_parent_page, sibling_pos)
  IN IF \/ IsEmpty(t) \/ leaf_id = Unmapped
        \/ ~LeafRemoves(t.pages[leaf_id], key)
        \/ IsRootPage(tree_leaf_page)
        \/ GetSize(tree_leaf_page) >= GetMinSize(tree_leaf_page)
        \/ ~Mapped(t, parent_id)
        \/ GetSize(tree_parent_page) <= 1
        \/ pos = GetSize(tree_parent_page)
     THEN [found |-> FALSE]
     ELSE IF ~Mapped(t, sibling_id) \/ GetSize(t.pages[sibling_id]) > GetMinSize(t.pages[sibling_id])
     THEN [found |-> FALSE]
     ELSE IF pos # 0
     THEN [found |-> TRUE, left |-> sibling_id, right |-> leaf_id, parent |-> parent_id,
           left_page |-> t.pages[sibling_id], right_page |-> tree_leaf_page]
     ELSE [found |-> TRUE, left |-> leaf_id, right |-> sibling_id, parent |-> parent_id,
           left_page |-> tree_leaf_page, right_page |-> t.pages[sibling_id]]

\* C30: when an underflowing leaf is merged with its sibling, afterwards the
\* left page of the pair holds all entries of the old left page followed by all
\* entries of the old right page, its next_page_id is the old right page's
\* next_page_id, and the parent no longer has an entry for the right page.
C30_CoalesceKeepsEntries ==
  tree.status = "ok" =>
    \A key \in TreeKeys :
       \E pair \in {CoalescedLeaves(tree, key)}, after \in {TreeRemove(tree, key)} :
          pair.found /\ after.status = "ok" =>
            /\ after.pages[pair.left].array = pair.left_page.array \o pair.right_page.array
            /\ GetSize(after.pages[pair.left])
                 = GetSize(pair.left_page) + GetSize(pair.right_page)
            /\ after.pages[pair.left].next_page_id = pair.right_page.next_page_id
            /\ ValuePosition(after.pages[pair.parent], pair.right)
                 = GetSize(after.pages[pair.parent])

\* the scenario of C24 has made its first n calls
Played24(n) == bt_script.calls = Script24 /\ bt_script.pc = n + 1

\* C24: with leaf_max_size = 3 and internal_max_size = 3, inserting 1, 2, 3, 4, 5
\* causes a leaf split and a root promotion (the root is then an internal
\* page), and then deleting 4 and 5 leaves a tree whose root is a single leaf
\* holding exactly the keys 1, 2, 3.
C24_SplitThenCoalesce ==
  /\ Played24(5) =>
       /\ tree.status = "ok"
       /\ Mapped(tree, tree.root_page_id)
       /\ ~IsLeafPage(tree.pages[tree.root_page_id])
       /\ IsRootPage(tree.pages[tree.root_page_id])
  /\ Played24(7) =>
       /\ tree.status = "ok"
       /\ Mapped(tree, tree.root_page_id)
       /\ IsLeafPage(tree.pages[tree.root_page_id])
       /\ IsRootPage(tree.pages[tree.root_page_id])
       /\ LeafChain(tree) = <<1, 2, 3>>
       /\ \A id \in TreePageIds : Mapped(tree, id) => id = tree.root_page_id

\* C25: begin(key) yields an iterator positioned at key's slot in the leaf
\* containing it, and advancing it until the end yields every stored key >= key
\* exactly once in increasing order, crossing leaves through next_page_id.
C25_RangeIteration ==
  tree.status = "ok" =>
    \A key \in Stored :
       FindLeaf(tree, tree.root_page_id, key) # Unmapped =>
         \A it \in BeginKey(tree, key) :
            /\ it.curr_page_id = FindLeaf(tree, tree.root_page_id, key)
            /\ it.curr_idx = LeafKeyPosition(tree.pages[it.curr_page_id], key)
            /\ \E keys \in {IteratorKeys(tree, it, MaxTreeKey + 1)} :
                  /\ \A i \in 1 .. (Len(keys) - 1) : keys[i] < keys[i + 1]
                  /\ {keys[i] : i \in 1 .. Len(keys)} = {k \in Stored : k >= key}

Played27 ==
  /\ bucket_size = 2
  /\ ht_script.calls = Script27
  /\ ht_script.pc = Len(Script27) + 1

\* C27: with bucket_size = 2 and the identity hash, inserting the keys 0, 1, 2,
\* 3, 4 into an empty table ends with global_depth = 2 and num_buckets = 3.
C27_DirectoryDoubling == Played27 => ht.global_depth = 2 /\ ht.num_buckets = 3

C27_Witness == Played27 /\ \A i \in 1 .. Len(Script27) : Find(ht, Script27[i]) = 1

\* ------------------------------------------------------- claims: concurrency
\* C28: concurrent buffer-pool calls are linearizable: at most one call is
\* inside the pool at a time, so two new_page calls never return the same page
\* id, two calls whose callers both still hold their page never obtained the
\* same frame, and the pin count of a page equals the number of successful
\* fetch / new calls minus the successful unpins.
C28_Linearizable ==
  /\ Cardinality({t \in Threads : thread[t] = "locked"}) = (IF latch THEN 1 ELSE 0)
  /\ Cardinality(returned) = next_page_id
  /\ \A p, q \in PageIds :
        p # q /\ pinned[p] > 0 /\ pinned[q] > 0 => obtained[p] # obtained[q]
  /\ \A p \in PageIds :
        /\ pinned[p] > 0 =>
             /\ pages[obtained[p]].page_id = p
             /\ pages[obtained[p]].pin_count = pinned[p]
        /\ \A f \in Frames : pages[f].page_id = p => pages[f].pin_count = pinned[p]

\* thread t waits for a latch that thread u holds
WaitsFor(t, u) ==
  /\ prog[t] # <<>>
  /\ Head(prog[t]).op = "lock"
  /\ u \in Holder(Head(prog[t]).latch)

\* C29: no interleaving of pool, hash-table and replacer calls deadlocks (no
\* set of threads in which every thread waits for a latch held inside the
\* set); a latch is only taken in the orders pool -> table and pool ->
\* replacer, never the pool latch while a table or replacer latch is held,
\* and the inner latch is given back before the outer one.
C29_NoDeadlock ==
  /\ \A S \in SUBSET Threads : S # {} => \E t \in S : \A u \in S : ~WaitsFor(t, u)
  /\ \A t \in Threads :
        /\ held[t] \in {<<>>, <<"pool">>, <<"table">>, <<"replacer">>,
                        <<"pool", "table">>, <<"pool", "replacer">>}
        /\ prog[t] # <<>> /\ Head(prog[t]).op = "lock" =>
             IF Head(prog[t]).latch = "pool" THEN held[t] = <<>> ELSE held[t] \in {<<>>, <<"pool">>}
        /\ prog[t] # <<>> /\ Head(prog[t]).op = "unlock" =>
             held[t] # <<>> /\ held[t][Len(held[t])] = Head(prog[t]).latch
  /\ \A l \in Latches : Cardinality(Holder(l)) <= 1

\* a pool operation holds the pool latch and waits for the table latch, which
\* a thread calling the hash table directly holds
C29_Witness ==
  \E t, u \in Threads :
    /\ held[t] = <<"pool">>
    /\ WaitsFor(t, u)
    /\ held[u] = <<"table">>

\* ------------------------------------------- claims: hash table, second part
\* C35: every entry stored in a bucket belongs there: for every directory
\* slot i and every key k stored in the bucket at slot i with local depth d_b,
\* the low d_b bits of hash(k) equal the low d_b bits of i.
C35_EntriesBelong ==
  ~ht.diverged =>
    \A i \in 0 .. (Len(ht.dir) - 1) :
      LET b == BucketAt(ht, i)
      IN \A j \in 1 .. Len(b.list) : Hash(b.list[j][1]) % Pow2(b.depth) = i % Pow2(b.depth)

\* a bucket of depth 2 or more holds an entry while a bucket that was split
\* is still addressed by another slot of the directory
C35_Witness ==
  /\ ~ht.diverged
  /\ \E i \in 0 .. (Len(ht.dir) - 1) : BucketAt(ht, i).depth >= 2 /\ BucketAt(ht, i).list # <<>>
  /\ \E i, j \in 0 .. (Len(ht.dir) - 1) :
       /\ BucketAt(ht, i).list # <<>>
       /\ j % Pow2(BucketAt(ht, i).depth) = i % Pow2(BucketAt(ht, i).depth)
       /\ ht.dir[j + 1] # ht.dir[i + 1]

\* C36: GetNumBuckets() equals the number of distinct buckets the directory
\* refers to: a split replaces one bucket by two and no slot keeps referring
\* to the bucket that was split.
C36_NumBuckets ==
  ~ht.diverged => ht.num_buckets = Cardinality({ht.dir[i] : i \in 1 .. Len(ht.dir)})

\* the keys stored in some bucket the directory refers to
StoredKeys(t) ==
  UNION {{BucketAt(t, i).list[j][1] : j \in 1 .. Len(BucketAt(t, i).list)} : i \in 0 .. (Len(t.dir) - 1)}

\* the local depth of every directory slot
LocalDepths(t) == [i \in 1 .. Len(t.dir) |-> t.bk[t.dir[i]].depth]

\* C37: Insert of a key that is already present only overwrites its value:
\* global_depth, num_buckets, every local depth and the set of stored keys
\* are unchanged, even when the bucket holding the key is full.
C37_InsertPresentKey ==
  ~ht.diverged =>
    \A k \in Keys, v \in Vals :
      Find(ht, k) # None =>
        \E after \in {Insert(ht, k, v, bucket_size, BitsFor(MaxKey))} :
          /\ ~after.diverged
          /\ Find(after, k) = v
          /\ after.global_depth = ht.global_depth
          /\ after.num_buckets = ht.num_buckets
          /\ LocalDepths(after) = LocalDepths(ht)
          /\ StoredKeys(after) = StoredKeys(ht)

\* ------------------------------------------- claims: buffer pool, second part
\* C38: frame partition: every frame is either on the free list exactly once
\* (holding no page: page id INVALID, pin count 0, not tracked by the
\* replacer) or holds exactly one page whose id the page table maps to that
\* frame; the page table maps no page id to a frame that holds a different
\* page, and no two page ids to the same frame.
C38_FramePartition ==
  Running /\ ~page_table.diverged =>
    /\ \A f \in Frames :
         \E n \in {Cardinality({i \in 1 .. Len(free_list) : free_list[i] = f})} :
           \/ /\ n = 1
              /\ pages[f].page_id = INVALID_PAGE_ID
              /\ pages[f].pin_count = 0
              /\ ~replacer.frames[f].tracked
           \/ /\ n = 0
              /\ pages[f].page_id # INVALID_PAGE_ID
              /\ Find(page_table, pages[f].page_id) = f
    /\ \A p \in PageIds :
         Find(page_table, p) # None => pages[Find(page_table, p)].page_id = p
    /\ \A p, q \in PageIds :
         p # q /\ Find(page_table, p) # None => Find(page_table, p) # Find(page_table, q)

\* ---------------------------------------------- claims: replacer, second part
\* C33: for every K >= 1 a tracked frame is on history_list iff its recorded
\* access count is < K and on cache_list iff its count is >= K, and
\* record_access / remove only ever unlink a frame from the list it is on.
C33_Lifecycle ==
  ~lru_aborted =>
    \A f \in FrameIds :
      /\ lru.frames[f].tracked =>
           /\ InList(lru.history_list, f) <=> lru.frames[f].access_count < lru_k
           /\ InList(lru.cache_list, f) <=> lru.frames[f].access_count >= lru_k
      /\ ~RecordAccessWrongList(lru, f, lru_k)
      /\ ~RemoveWrongList(lru, f, lru_k)

\* the underflowing leaf and the sibling that Remove(key) redistributes between,
\* as they are once key is removed from its leaf and before an entry is moved;
\* found is FALSE when Remove(key) redistributes between no leaves, and
\* prev_sibling tells whether the sibling is the left one
RedistributedLeaves(t, key) ==
  LET leaf_id == FindLeaf(t, t.root_page_id, key)
      tree_leaf_page == LeafRemove(t.pages[leaf_id], key)
      parent_id == tree_leaf_page.parent_page_id
      tree_parent_page == t.pages[parent_id]
      pos == ValuePosition(tree_parent_page, leaf_id)
      sibling_pos == IF pos = 0 THEN pos + 1 ELSE pos - 1
      sibling_id == ValueAt(tree_parent_page, sibling_pos)
  IN IF \/ IsEmpty(t) \/ leaf_id = Unmapped
        \/ ~LeafRemoves(t.pages[leaf_id], key)
        \/ IsRootPage(tree_leaf_page)
        \/ GetSize(tree_leaf_page) >= GetMinSize(tree_leaf_page)
        \/ ~Mapped(t, parent_id)
        \/ GetSize(tree_parent_page) <= 1
        \/ pos = GetSize(tree_parent_page)
     THEN [found |-> FALSE]
     ELSE IF ~Mapped(t, sibling_id) \/ GetSize(t.pages[sibling_id]) <= GetMinSize(t.pages[sibling_id])
     THEN [found |-> FALSE]
     ELSE [found |-> TRUE, prev_sibling |-> pos # 0, leaf |-> leaf_id, sibling |-> sibling_id,
           parent |-> parent_id, separator |-> IF pos = 0 THEN sibling_pos ELSE pos,
           leaf_page |-> tree_leaf_page, sibling_page |-> t.pages[sibling_id]]

\* C31: when an underflowing leaf borrows from its left sibling it afterwards
\* holds the sibling's former last entry followed by all of its own previous
\* entries in their previous order (borrowing from the right sibling appends
\* the sibling's former first entry), the sibling loses exactly that entry, and
\* the parent separator between the two pages equals the first key of the
\* right-hand page.
C31_LeafRedistribution ==
  tree.status = "ok" =>
    \A key \in TreeKeys :
       \E pair \in {RedistributedLeaves(tree, key)}, after \in {TreeRemove(tree, key)} :
          pair.found =>
            /\ after.status = "ok"
            /\ LET n == GetSize(pair.sibling_page)
                   leaf_after == after.pages[pair.leaf]
                   sibling_after == after.pages[pair.sibling]
                   right_after == IF pair.prev_sibling THEN leaf_after ELSE sibling_after
               IN /\ IF pair.prev_sibling
                     THEN /\ leaf_after.array
                               = <<pair.sibling_page.array[n]>> \o pair.leaf_page.array
                          /\ sibling_after.array = SubSeq(pair.sibling_page.array, 1, n - 1)
                     ELSE /\ leaf_after.array
                               = Append(pair.leaf_page.array, pair.sibling_page.array[1])
                          /\ sibling_after.array = Tail(pair.sibling_page.array)
                  /\ KeyAt(after.pages[pair.parent], pair.separator) = KeyAt(right_after, 0)

\* the internal page that Insert(key, value) splits first, with the pair
\* (risen_key, child) that the leaf split below it raises into it; found is
\* FALSE when Insert(key, value) splits no internal page
SplitInternalPage(t, key, value) ==
  LET leaf_id == FindLeaf(t, t.root_page_id, key)
      inserted == LeafInsert(t.pages[leaf_id], key, value)
      parent_id == t.pages[leaf_id].parent_page_id
  IN IF \/ IsEmpty(t) \/ leaf_id = Unmapped
        \/ GetSize(inserted) = GetSize(t.pages[leaf_id])
        \/ GetSize(inserted) < leaf_max_size
        \/ IsRootPage(t.pages[leaf_id])
        \/ ~Mapped(t, parent_id)
     THEN [found |-> FALSE]
     ELSE IF GetSize(t.pages[parent_id]) < internal_max_size
     THEN [found |-> FALSE]
     ELSE [found |-> TRUE, page_id |-> parent_id, page |-> t.pages[parent_id],
           risen_key |-> KeyAt(LeafSplitTo(inserted)[2], 0), child |-> t.next_page_id,
           new_page_id |-> t.next_page_id + 1]

\* how many slots of an internal page name the child
Occurrences(p, child) == Cardinality({i \in 1 .. GetSize(p) : p.array[i][2] = child})

\* the keys of slots from .. size - 1 do not decrease
KeysSorted(p, from) ==
  \A i, j \in (from + 1) .. GetSize(p) : i < j => p.array[i][1] <= p.array[j][1]

\* C32: when a full internal page is split while inserting (risen_key, child),
\* every child page id of the original page and the new child appears exactly
\* once in exactly one of the two pages, the keys are in sorted order inside
\* each page (the new pair at its sorted position, also when it belongs at the
\* first slot of the new sibling), the key pushed to the parent equals the
\* smallest key routed to the new sibling, and every child listed in the new
\* sibling has its parent pointer set to the new sibling.
C32_InternalSplit ==
  tree.status = "ok" =>
    \A key \in TreeKeys, value \in TreeVals :
       \E s \in {SplitInternalPage(tree, key, value)}, after \in {TreeInsert(tree, key, value)} :
          /\ s.found
          /\ after.next_page_id <= MaxTreePages + 1
          /\ KeysSorted(s.page, 1)
          /\ \A c \in Children(s.page, 0, GetSize(s.page)) \cup {s.child} :
                Occurrences(s.page, c) = IF c = s.child THEN 0 ELSE 1
          => /\ after.status = "ok"
             /\ LET this_page == after.pages[s.page_id]
                    new_page == after.pages[s.new_page_id]
                    up == after.pages[new_page.parent_page_id]
                IN /\ \A c \in Children(s.page, 0, GetSize(s.page)) \cup {s.child} :
                         Occurrences(this_page, c) + Occurrences(new_page, c) = 1
                   /\ GetSize(this_page) + GetSize(new_page) = GetSize(s.page) + 1
                   /\ KeysSorted(this_page, 1)
                   /\ KeysSorted(new_page, 0)
                   /\ Mapped(after, new_page.parent_page_id)
                   /\ ValuePosition(up, s.new_page_id) < GetSize(up)
                   /\ KeyAt(up, ValuePosition(up, s.new_page_id)) = KeyAt(new_page, 0)
                   /\ \A i \in 1 .. GetSize(this_page) :
                         this_page.array[i][1] < KeyAt(new_page, 0) \/ i = 1
                   /\ \A c \in Children(new_page, 0, GetSize(new_page)) :
                         Mapped(after, c) /\ after.pages[c].parent_page_id = s.new_page_id

\* C39: rebalancing after a delete never looks up a parent or sibling for the
\* root internal page, for every internal_max_size: when two leaves below the
\* root are coalesced, a root left with 2 or more children stays the root with
\* its remaining entries, and a root left with a single child is replaced by
\* that child, whose parent pointer becomes INVALID_PAGE_ID and whose id becomes
\* the root id in memory and in the header page.
C39_RootExempt ==
  tree.status = "ok" =>
    \A key \in TreeKeys :
       \E pair \in {CoalescedLeaves(tree, key)}, after \in {TreeRemove(tree, key)} :
          pair.found /\ IsRootPage(tree.pages[pair.parent]) =>
            /\ after.status = "ok"
            /\ IF GetSize(tree.pages[pair.parent]) > 2
               THEN /\ Mapped(after, pair.parent)
                    /\ IsRootPage(after.pages[pair.parent])
                    /\ after.pages[pair.parent].array
                         = InternalRemove(tree.pages[pair.parent],
                                          ValuePosition(tree.pages[pair.parent], pair.right)).array
                    /\ after.root_page_id = tree.root_page_id
               ELSE /\ ~Mapped(after, pair.parent)
                    /\ Mapped(after, pair.left)
                    /\ after.pages[pair.left].parent_page_id = INVALID_PAGE_ID
                    /\ after.root_page_id = pair.left
                    /\ after.header = pair.left

\* the page ids the calls name
Called(calls) == {calls[i][2] : i \in 1 .. Len(calls)}

\* every page is unpinned exactly as often as it is fetched or created, and
\* never while its pin count is 0
PinNeutral(calls) ==
  \A id \in Called(calls) :
     /\ PinCount(calls, id, Len(calls)) = 0
     /\ \A n \in 1 .. Len(calls) :
           calls[n] = <<"Unpin", id>> => PinCount(calls, id, n - 1) > 0

Deleted(calls) == {calls[i][2] : i \in {j \in 1 .. Len(calls) : calls[j][1] = "Delete"}}

\* C34: during Remove no page is deleted from the buffer pool before
\* rebalancing has finished; every page emptied by a coalesce or a root change
\* is deleted by Remove, with pin count 0 by then, and the deleted set is empty
\* when Remove returns.
C34_DeferredDeletion ==
  tree.status = "ok" =>
    \A key \in TreeKeys :
       \E after \in {TreeRemove(tree, key)}, calls \in {RemoveCalls(tree, key)},
          pair \in {CoalescedLeaves(tree, key)} :
          after.status = "ok" =>
            /\ \A i, j \in 1 .. Len(calls) :
                  i < j /\ calls[i][1] = "Delete" => calls[j][1] = "Delete"
            /\ \A i \in 1 .. Len(calls) :
                  calls[i][1] = "Delete" => PinCount(calls, calls[i][2], i - 1) = 0
            /\ pair.found => pair.right \in Deleted(calls)
            /\ pair.found /\ IsRootPage(tree.pages[pair.parent])
                 /\ GetSize(tree.pages[pair.parent]) = 2
                 => pair.parent \in Deleted(calls)
            /\ \A id \in TreePageIds :
                  /\ Mapped(tree, id) /\ IsLeafPage(tree.pages[id]) /\ IsRootPage(tree.pages[id])
                  /\ id = tree.root_page_id
                  /\ GetSize(tree.pages[id]) = 1 /\ KeyAt(tree.pages[id], 0) = key
                  => id \in Deleted(calls)
            /\ \A id \in Deleted(calls) : ~Mapped(after, id)
            /\ \A id \in TreePageIds : Mapped(tree, id) /\ ~Mapped(after, id) => id \in Deleted(calls)
            /\ after.deleted = {}

\* a Remove that coalesces two leaves below a root with two children, and so
\* deletes a leaf and the root, completes
C34_Witness ==
  /\ tree.status = "ok"
  /\ \E key \in TreeKeys :
        /\ CoalescedLeaves(tree, key).found
        /\ IsRootPage(tree.pages[CoalescedLeaves(tree, key).parent])
        /\ GetSize(tree.pages[CoalescedLeaves(tree, key).parent]) = 2
        /\ TreeRemove(tree, key).status = "ok"
        /\ Cardinality(Deleted(RemoveCalls(tree, key))) = 2
====
